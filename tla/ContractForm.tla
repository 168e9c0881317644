----------------------------- MODULE ContractForm ------------------------------
(***************************************************************************)
(* ContractLedger as the contract form of the web client uses it, the only  *)
(* client in the repository.  The form saves nothing but drafts.  The       *)
(* server does not insist on it: it writes the status of a body that is     *)
(* completed, cancelled or discarded over whatever the contract has become, *)
(* and makes no movements for it.  The properties here do not hold of such  *)
(* a client.                                                                *)
(***************************************************************************)
EXTENDS ContractLedger

\* Only a sale has a price, and may be paid by instalments.
AsSaved(c) == /\ c.price = 0 <=> c.kind # "definitive"
              /\ c.kind # "definitive" => c.cash

\* What the form sends, on creation and in every edit.
FormBodies == {c \in Contract : c.status = "draft" /\ AsSaved(c)}

ASSUME FormAssumption == \A body \in Bodies : body.status = "draft"

-----------------------------------------------------------------------------
(* Properties, of contracts that only the form writes.                     *)

\* The customer's movements and the balances of the instalments are what the
\* contract's rows and payment entries say, although each is written by another
\* piece of code: the charges by the synchronisation on approval and settlement,
\* the payments by each collection, the balances by a trigger.  What is no approved
\* sale has charged and credited nothing.
LedgerFollowsBooks ==
    /\ KeepsMovements(contract) =>
         /\ \A k \in Accounts : /\ ledger[k].charge = Due(contract, inst, k)
                                /\ ledger[k].credit = paid[k]
                                /\ ledger[k].discount = 0
         /\ \A l \in Lines : inst[l].left = Excess(inst[l].amount, paid[l])
    /\ contract.status \in {"draft", "discarded"} \/ contract.kind # "definitive" =>
         \A k \in Accounts : ledger[k].charge = 0 /\ ledger[k].credit = 0

\* A cancelled sale leaves nothing due: every charge is covered by payments and by
\* the discount the cancellation recorded, although the cancellation works with sums
\* it read before it had the contract's lock.
CancelledOwesNothing ==
    contract.status = "cancelled" =>
      \A k \in Accounts : ledger[k].charge <= ledger[k].credit + ledger[k].discount

\* A customer is charged the price of the sale and no more: what is due on signing
\* and what is due by instalments, recorded one by one, sum to it, whether a draft
\* was approved or a trial settled, and whatever was collected on the way.  Only a
\* cash sale whose draft kept instalments beyond its price is charged those.
ChargedIsPrice ==
    contract.status \in {"active", "completed", "cancelled"} /\ contract.kind = "definitive" =>
      \/ Total([k \in Accounts |-> ledger[k].charge]) = contract.price
      \/ contract.cash /\ Scheduled(inst) > contract.price

\* A completed contract is paid up, is no trial, and an approved sale whose
\* instalments are all paid is completed: no order of collections, approval and
\* activation leaves it open.  (Of the form only: a body sent with the status
\* `completed' is written as it is, paid up or not.)
CompletionFollowsPayment ==
    /\ contract.status = "completed" =>
         contract.kind # "temporary" /\ PaidUp(contract, inst, paid)
    /\ contract.status = "active" /\ contract.kind = "definitive" /\ (\E l \in Lines : HasRow(l))
         => \E l \in Lines : inst[l].left > 0

\* Every confirmed instalment of an active sale that is not paid has a task to
\* collect it, or had one that was given up when the customer refused.
OpenReceivableIsWorked ==
    contract.status = "active" /\ contract.kind = "definitive" =>
      \A l \in Lines : inst[l].confirmed /\ inst[l].left > 0 =>
        \E a \in DOMAIN tasks[l] : tasks[l][a] \in {"active", "cancelled"}

\* A contract that was approved is never a draft or discarded again, although the
\* form may send a draft that was checked before the approval; a completed or
\* cancelled one stays so, even when its device is activated afterwards.  (Of the form
\* only: a late edit whose status is `discarded', `cancelled' or `completed' is written
\* over an approved contract, and no trigger refuses it.)
StaysApproved ==
    /\ contract.status \in {"active", "completed", "cancelled"} =>
         contract'.status \in {"active", "completed", "cancelled"}
    /\ contract.status \in {"completed", "cancelled"} =>
         contract'.status = contract.status
ApprovedIsFinal == [][StaysApproved]_vars

\* What a comment of the cancellation says: the discounts void what is left of what
\* was charged, and never give the customer a balance he did not pay for.
NoPhantomCredit ==
    \A k \in Accounts :
      ledger[k].discount > 0 => ledger[k].credit + ledger[k].discount <= ledger[k].charge
=============================================================================
