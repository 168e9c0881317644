----------------------------- MODULE ContractLedger -----------------------------
(***************************************************************************)
(* The money of one sale contract: the draft is edited, approved, and then  *)
(* paid instalment by instalment by the collection visits; a trial is       *)
(* settled into a sale or ends with the device's return; an unpaid contract *)
(* is cancelled.  Every step keeps three books: the contract's own rows     *)
(* (instalments and payment entries), the customer's financial movements,   *)
(* and the collection tasks that get the instalments paid.                  *)
(*                                                                          *)
(* A transaction that locks the contract first is one step.  The edit form  *)
(* reads the status before its transaction; the cancellation's sums and the *)
(* collection's open balance are read when their statement starts, which is *)
(* before the row lock is granted: these are two steps.  A database trigger *)
(* is part of the step whose statement fires it.  Amounts are in units above *)
(* the code's tolerance for rounding.                                       *)
(***************************************************************************)
EXTENDS Naturals, Sequences, FiniteSets, Functions

CONSTANTS
    Lines,          \* the numbers of the instalments
    Signing,        \* what is due, and paid, without an instalment
    Prices, Amounts,   \* of a contract, of an instalment or a payment
    Bodies,         \* the contracts clients send, new ones and edits
    Calls,          \* requests being handled
    MaxPaid, MaxAttempts   \* bounds: on what one line collects, on the tasks

Contract == [status : {"draft", "active", "completed", "cancelled", "discarded"},
             kind : {"definitive", "temporary", "free"},
             cash : BOOLEAN, price : Prices \cup {0}]

ASSUME LedgerAssumption ==
    /\ IsFiniteSet(Lines)
    /\ Signing \notin Lines
    /\ Prices \subseteq Nat \ {0} /\ Amounts \subseteq Nat \ {0}
    /\ Bodies \subseteq Contract
    /\ MaxPaid \in Nat /\ MaxAttempts \in Nat

VARIABLES
    contract,   \* contracts
    device,     \* whether installed_devices has the contract's device
    inst,       \* contract_installments; amount 0 where there is no row
    paid,       \* contract_payment_entries, summed by instalment
    ledger,     \* financial_movements, by what they are for
    tasks,      \* the collection tasks of an instalment, each with its visit task
    call        \* what each request in progress has read

vars == <<contract, device, inst, paid, ledger, tasks, call>>

-----------------------------------------------------------------------------

Accounts == Lines \cup {Signing}

Instalment == [amount : Amounts \cup {0}, left : Nat, confirmed : BOOLEAN]
Attempt == {"active", "completed", "cancelled"}

Idle == [op |-> "idle"]
Call == {Idle, [op |-> "edit"]}
          \cup [op : {"cancel"}, total : Nat, left : Nat, signing : Nat]
          \cup [op : {"collect"}, line : Lines, attempt : Nat, before : Nat]

TypeOK ==
    /\ contract \in Contract
    /\ device \in BOOLEAN
    /\ inst \in [Lines -> Instalment]
    /\ paid \in [Accounts -> Nat]
    /\ ledger \in [Accounts -> [charge : Nat, credit : Nat, discount : Nat]]
    /\ tasks \in [Lines -> Seq(Attempt)]
    /\ call \in [Calls -> Call]

NoRow == [amount |-> 0, left |-> 0, confirmed |-> FALSE]
NoMovement == [charge |-> 0, credit |-> 0, discount |-> 0]

\* A client's status is trusted when it ends the contract; it never activates one.
deriveContractWriteStatus(status) ==
    IF status \in {"cancelled", "completed", "discarded"} THEN status ELSE "draft"
Written(body) == [body EXCEPT !.status = deriveContractWriteStatus(@)]

Init ==
    /\ contract \in {Written(body) : body \in Bodies}
    /\ device = FALSE
    /\ inst = [l \in Lines |-> NoRow]
    /\ paid = [k \in Accounts |-> 0]
    /\ ledger = [k \in Accounts |-> NoMovement]
    /\ tasks = [l \in Lines |-> <<>>]
    /\ call = [c \in Calls |-> Idle]

-----------------------------------------------------------------------------
(* What the triggers and the shared services compute, from a contract c,   *)
(* its instalments i, its payments p, its movements g and its tasks t.     *)

Total(f) == FoldFunction(+, 0, f)
Scheduled(i) == Total([l \in Lines |-> i[l].amount])
Excess(a, b) == IF a > b THEN a - b ELSE 0
HasRow(l) == inst[l].amount > 0

\* recompute_installment_balance, for each of L.
Balanced(i, p, L) ==
    [l \in Lines |-> IF l \in L THEN [i[l] EXCEPT !.left = Excess(i[l].amount, p[l])]
                                ELSE i[l]]

\* recompute_contract_completion.
PaidUp(c, i, p) ==
    IF \E l \in Lines : i[l].amount > 0 THEN \A l \in Lines : i[l].left = 0
                                        ELSE c.cash /\ Total(p) >= c.price

\* Mutant: a trial completes too.
CompletedAnyKind(c, i, p) ==
    IF c.status = "active" /\ PaidUp(c, i, p) THEN [c EXCEPT !.status = "completed"] ELSE c

Completed(c, i, p) ==
    IF c.status = "active" /\ c.kind # "temporary" /\ PaidUp(c, i, p)
    THEN [c EXCEPT !.status = "completed"] ELSE c

\* Only a definitive sale that was approved has movements.
KeepsMovements(c) == c.status \in {"active", "completed"} /\ c.kind = "definitive"

\* Mutant: the instalments are not taken off what is due on signing.
DueUnscheduled(c, i, k) == IF k = Signing THEN c.price ELSE i[k].amount

Due(c, i, k) == IF k = Signing THEN Excess(c.price, Scheduled(i)) ELSE i[k].amount

\* recordContractPaymentMovement.
Credited(g, l, amount) == [g EXCEPT ![l].credit = @ + amount]

\* Mutant: only the payments of instalments are synchronised.
SyncedInstalments(c, i, p, g) ==
    IF KeepsMovements(c)
    THEN [k \in Accounts |->
            [g[k] EXCEPT !.charge = IF @ = 0 THEN Due(c, i, k) ELSE @,
                         !.credit = IF k = Signing THEN @ ELSE p[k]]]
    ELSE g

\* syncContractMovements: a movement that exists already is left as it is.
Synced(c, i, p, g) ==
    IF KeepsMovements(c)
    THEN [k \in Accounts |->
            [g[k] EXCEPT !.charge = IF @ = 0 THEN Due(c, i, k) ELSE @, !.credit = p[k]]]
    ELSE g

Active(t, l) == \E a \in DOMAIN t[l] : t[l][a] = "active"

\* Mutant: one task per instalment, whatever became of it.
WithTasksOnce(t, i, L) ==
    [l \in Lines |-> IF l \in L /\ i[l].left > 0 /\ t[l] = <<>>
                     THEN Append(t[l], "active") ELSE t[l]]

\* createInstallmentCollectionTask, for each of L.
WithTasks(t, i, L) ==
    [l \in Lines |-> IF l \in L /\ i[l].left > 0 /\ ~Active(t, l)
                     THEN Append(t[l], "active") ELSE t[l]]

RoomForTasks == Total([l \in Lines |-> Len(tasks'[l])]) <= MaxAttempts

\* An instalment with a recorded result cannot be deleted (ON DELETE RESTRICT).
\* Deleting one unlinks its tasks, and waits for the requests that lock them.
Deletable(L) ==
    \A l \in L : /\ \A a \in DOMAIN tasks[l] : tasks[l][a] = "active"
                 /\ \A c \in Calls : call[c].op = "collect" => call[c].line # l
Unlinked(L) == [l \in Lines |-> IF l \in L THEN <<>> ELSE tasks[l]]

\* The form confirms all of a schedule or nothing of it.
Row(amount, b) == [amount |-> amount, left |-> amount, confirmed |-> b /\ amount > 0]
Schedules == {[l \in Lines |-> Row(f[l], b)] :
                f \in [Lines -> Amounts \cup {0}], b \in BOOLEAN}

-----------------------------------------------------------------------------
(* The draft.                                                              *)

EditCheck(c) ==
    /\ call[c] = Idle /\ contract.status = "draft"
    /\ call' = [call EXCEPT ![c] = [op |-> "edit"]]
    /\ UNCHANGED <<contract, device, inst, paid, ledger, tasks>>

\* Mutant: the trigger is not there.
BackToDraftAlways == TRUE

\* A trigger keeps a contract with a device from becoming a draft again.
BackToDraft == ~device \/ contract.status = "draft"

\* The status is not read again: any other than a draft is written over what there is.
EditWrite(c, body) ==
    /\ call[c].op = "edit"
    /\ Written(body).status = "draft" => BackToDraft
    /\ contract' = Written(body)
    /\ call' = [call EXCEPT ![c] = Idle]
    /\ UNCHANGED <<device, inst, paid, ledger, tasks>>

\* No entry of the form is for an instalment.
SavePayments(amount) ==
    /\ contract.status = "draft"
    /\ paid' = [k \in Accounts |-> IF k = Signing THEN amount ELSE 0]
    /\ UNCHANGED <<contract, device, inst, ledger, tasks, call>>

SaveInstallments(rows) ==
    LET open == {l \in Lines : ~inst[l].confirmed}
        dropped == {l \in open : HasRow(l)} IN
    /\ contract.status = "draft"
    /\ Deletable(dropped)
    /\ inst' = [l \in Lines |-> IF l \in open THEN rows[l] ELSE inst[l]]
    /\ tasks' = Unlinked(dropped)
    /\ UNCHANGED <<contract, device, paid, ledger, call>>

ConfirmInstallments ==
    /\ contract.status = "draft"
    /\ inst' = [l \in Lines |-> [inst[l] EXCEPT !.confirmed = HasRow(l)]]
    /\ UNCHANGED <<contract, device, paid, ledger, tasks, call>>

Reject ==
    /\ contract.status = "draft"
    /\ contract' = [contract EXCEPT !.status = "discarded"]
    /\ UNCHANGED <<device, inst, paid, ledger, tasks, call>>

-----------------------------------------------------------------------------
(* Approval, and the settlement of a trial.                                *)

\* collectApprovalIssues.
Approvable(c, i, p) ==
    \/ c.kind # "definitive"
    \/ c.cash /\ Total(p) = c.price
    \/ /\ ~c.cash
       /\ \E l \in Lines : i[l].confirmed
       /\ Total(p) + Scheduled(i) = c.price

\* The activation creates the device first, then replays the payments.
Approve ==
    /\ contract.status = "draft"
    /\ Approvable(contract, inst, paid)
    /\ device' = TRUE
    /\ inst' = Balanced(inst, paid, Lines)
    /\ contract' = Completed([contract EXCEPT !.status = "active"], inst', paid)
    /\ tasks' = WithTasks(tasks, inst', {l \in Lines : inst[l].confirmed})
    /\ ledger' = Synced(contract', inst', paid, ledger)
    /\ RoomForTasks
    /\ UNCHANGED <<paid, call>>

\* The completion is evaluated when the payment is entered, with the trial's old
\* instalments still there.
Settle(cash, price, down, rows) ==
    LET old == {l \in Lines : HasRow(l)}
        sale == [contract EXCEPT !.kind = "definitive", !.cash = cash, !.price = price]
        signing == IF cash THEN price ELSE down IN
    /\ contract.status = "active" /\ contract.kind = "temporary"
    /\ \A l \in Lines : rows[l].confirmed <=> rows[l].amount > 0
    /\ IF cash THEN down = 0 /\ \A l \in Lines : rows[l] = NoRow
               ELSE /\ down < price /\ down + Scheduled(rows) = price
                    /\ \E l \in Lines : rows[l] # NoRow
    /\ Deletable(old)
    /\ paid' = [paid EXCEPT ![Signing] = signing]
    /\ contract' = IF signing > 0 THEN Completed(sale, inst, paid') ELSE sale
    /\ inst' = rows
    /\ Approvable(contract', inst', paid')
    /\ ledger' = Synced(contract', inst', paid', ledger)
    /\ tasks' = WithTasks(Unlinked(old), inst', Lines)
    /\ RoomForTasks
    /\ UNCHANGED <<device, call>>

\* The device's activation visit activates the contract, whatever it was but for
\* these two; the trigger then replays the payments.
Activate ==
    LET again == contract.status # "active" IN
    /\ device /\ contract.status \notin {"cancelled", "discarded"}
    /\ inst' = IF again THEN Balanced(inst, paid, Lines) ELSE inst
    /\ contract' = IF again
                   THEN Completed([contract EXCEPT !.status = "active"], inst', paid)
                   ELSE contract
    /\ UNCHANGED <<device, paid, ledger, tasks, call>>

-----------------------------------------------------------------------------
(* The end without a sale.                                                 *)

\* The request is offered for an active contract.  Its sums are those of the
\* statement's snapshot; the contract's own row is read again under the lock.
CancelRead(c) ==
    /\ call[c] = Idle /\ contract.status = "active"
    /\ call' = [call EXCEPT ![c] =
                  [op |-> "cancel", total |-> Scheduled(inst),
                   left |-> Total([l \in Lines |-> inst[l].left]), signing |-> paid[Signing]]]
    /\ UNCHANGED <<contract, device, inst, paid, ledger, tasks>>

\* Mutant: a partly paid instalment is taken for settled.
DiscountedUnpaid(read) ==
    IF contract.kind = "temporary" THEN ledger
    ELSE [k \in Accounts |->
            [ledger[k] EXCEPT !.discount =
               IF @ # 0 THEN @
               ELSE IF k = Signing THEN Excess(contract.price, read.total + read.signing)
                    ELSE IF ledger[k].credit = 0 THEN inst[k].left ELSE 0]]

\* The rest of what is due is discounted, but for a trial, which owes nothing.
Discounted(read) ==
    IF contract.kind = "temporary" THEN ledger
    ELSE [k \in Accounts |->
            [ledger[k] EXCEPT !.discount =
               IF @ # 0 THEN @
               ELSE IF k = Signing THEN Excess(contract.price, read.total + read.signing)
                                   ELSE inst[k].left]]

CancelWrite(c) ==
    LET read == call[c] IN
    /\ read.op = "cancel" /\ contract.status = "active"
    /\ \/ contract.kind = "temporary"
       \/ contract.price + read.left > read.total + read.signing
    /\ contract' = [contract EXCEPT !.status = "cancelled"]
    /\ tasks' = [l \in Lines |-> [a \in DOMAIN tasks[l] |->
                   IF tasks[l][a] = "active" THEN "cancelled" ELSE tasks[l][a]]]
    /\ ledger' = Discounted(read)
    /\ call' = [call EXCEPT ![c] = Idle]
    /\ UNCHANGED <<device, inst, paid>>

\* The collection tasks, if the trial had instalments, stay as they are.
RetrieveTrialDevice ==
    /\ contract.status = "active" /\ contract.kind = "temporary"
    /\ contract' = [contract EXCEPT !.status = "cancelled"]
    /\ UNCHANGED <<device, inst, paid, ledger, tasks, call>>

-----------------------------------------------------------------------------
(* Collection.                                                             *)

\* By hand, for an instalment of any contract.
CreateTask(l) ==
    /\ inst[l].left > 0 /\ ~Active(tasks, l)
    /\ tasks' = WithTasks(tasks, inst, {l})
    /\ RoomForTasks
    /\ UNCHANGED <<contract, device, inst, paid, ledger, call>>

TakesResult(l, a) ==
    a \in DOMAIN tasks[l] /\ tasks[l][a] \in {"active", "completed"}

\* The balance is the snapshot's; the visit task's status is read under its lock.
CollectRead(c, l, a) ==
    /\ call[c] = Idle
    /\ TakesResult(l, a) /\ inst[l].left > 0
    /\ call' = [call EXCEPT ![c] = [op |-> "collect", line |-> l, attempt |-> a,
                                    before |-> inst[l].left]]
    /\ UNCHANGED <<contract, device, inst, paid, ledger, tasks>>

\* The status the attempt ends with; a follow-up task unless one is active.
Closed(l, a, status) == [tasks EXCEPT ![l] = [@ EXCEPT ![a] = status]]

CollectPayment(c, amount, full) ==
    LET l == call[c].line  a == call[c].attempt
        dormant == contract.status \in {"draft", "discarded"} IN
    /\ call[c].op = "collect" /\ TakesResult(l, a)
    /\ full <=> amount >= call[c].before
    /\ paid[l] + amount <= MaxPaid
    /\ paid' = [paid EXCEPT ![l] = @ + amount]
    /\ inst' = IF dormant THEN inst ELSE Balanced(inst, paid', {l})
    /\ contract' = Completed(contract, inst', paid')
    /\ ledger' = IF KeepsMovements(contract') THEN Credited(ledger, l, amount) ELSE ledger
    /\ tasks' = IF full THEN Closed(l, a, "completed")
                        ELSE WithTasks(Closed(l, a, "completed"), inst', {l})
    /\ RoomForTasks
    /\ call' = [call EXCEPT ![c] = Idle]
    /\ UNCHANGED device

CollectNothing(c, refused) ==
    LET l == call[c].line  a == call[c].attempt IN
    /\ call[c].op = "collect" /\ TakesResult(l, a)
    /\ tasks' = IF refused THEN Closed(l, a, "cancelled")
                           ELSE WithTasks(Closed(l, a, "completed"), inst, {l})
    /\ RoomForTasks
    /\ call' = [call EXCEPT ![c] = Idle]
    /\ UNCHANGED <<contract, device, inst, paid, ledger>>

\* A request is refused, fails, or is the victim of a deadlock: a payment locks the
\* task and then the contract, a cancellation the contract and then its tasks.
Abort(c) ==
    /\ call[c] # Idle
    /\ call' = [call EXCEPT ![c] = Idle]
    /\ UNCHANGED <<contract, device, inst, paid, ledger, tasks>>

-----------------------------------------------------------------------------

Drafting ==
    \/ \E c \in Calls : EditCheck(c)
    \/ \E c \in Calls, body \in Bodies : EditWrite(c, body)
    \/ \E amount \in Amounts \cup Prices \cup {0} : SavePayments(amount)
    \/ \E rows \in Schedules : SaveInstallments(rows)
    \/ ConfirmInstallments
    \/ Reject

Selling ==
    \/ Approve
    \/ \E cash \in BOOLEAN, price \in Prices, down \in Amounts \cup {0}, rows \in Schedules :
         Settle(cash, price, down, rows)
    \/ Activate

Ending ==
    \/ \E c \in Calls : CancelRead(c) \/ CancelWrite(c)
    \/ RetrieveTrialDevice

Collecting ==
    \/ \E l \in Lines : CreateTask(l)
    \/ \E c \in Calls, l \in Lines, a \in 1..MaxAttempts : CollectRead(c, l, a)
    \/ \E c \in Calls, amount \in Amounts, full \in BOOLEAN : CollectPayment(c, amount, full)
    \/ \E c \in Calls, refused \in BOOLEAN : CollectNothing(c, refused)

Next == Drafting \/ Selling \/ Ending \/ Collecting \/ \E c \in Calls : Abort(c)

Spec == Init /\ [][Next]_vars

-----------------------------------------------------------------------------

\* A contract is approved, with its device, tasks and movements made, once, whatever
\* clients send in edits that were checked before: what has a device is no draft.
ApprovedOnce == [][Approve => ~device]_vars
=============================================================================
