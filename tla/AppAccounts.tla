------------------------------ MODULE AppAccounts ------------------------------
(***************************************************************************)
(* App accounts: one-time codes sent to a phone, the handle a right code    *)
(* buys, the sessions (families of rotating refresh tokens) a login handle  *)
(* opens, the requests for an account and the accounts themselves, opened   *)
(* by staff or by linking a request, suspended, reactivated and deleted.    *)
(*                                                                          *)
(* A call is a read step, which takes the row locks of its SELECT ... FOR   *)
(* UPDATE, and a write step, which commits and releases them; in between    *)
(* other calls run, time passes, and the call may abort.  A call that        *)
(* returns an error has no step: it changes nothing.                        *)
(*                                                                          *)
(* PostgreSQL's part: a locked row blocks the calls that would lock it; an   *)
(* insert into app_refresh_tokens locks the account it references (FOR KEY   *)
(* SHARE), so it waits while another call holds that account FOR UPDATE; an  *)
(* UPDATE changes the rows its snapshot saw, checking each again once it has *)
(* waited for it.                                                           *)
(***************************************************************************)
EXTENDS Naturals, Sequences, FiniteSets

CONSTANTS
    Phones,
    Calls,          \* calls in flight at a time, over all processes
    MaxAttempts,    \* OTP_MAX_ATTEMPTS
    DailyCap,       \* OTP_DAILY_CAP_PER_PHONE, over the one day modelled
    ResendAge,      \* OTP_RESEND_SECONDS, in ticks
    CodeAge,        \* OTP_TTL_SECONDS, in ticks
    HandleAge,      \* HANDLE_TTL_MS, in ticks
    MaxCodes, MaxAccounts, MaxTokens, MaxRequests   \* bounds on the rows

ASSUME AccountsAssumption ==
    /\ IsFiniteSet(Calls)
    /\ MaxAttempts \in Nat \ {0}
    /\ DailyCap \in Nat
    /\ ResendAge \in Nat /\ CodeAge \in Nat /\ HandleAge \in Nat
    /\ MaxCodes \in Nat /\ MaxAccounts \in Nat
    /\ MaxTokens \in Nat /\ MaxRequests \in Nat

VARIABLES
    codes,      \* otp_verifications, in the order of created_at
    accounts,   \* app_accounts
    tokens,     \* app_refresh_tokens
    requests,   \* service_requests of type account_creation
    call        \* what each call in flight has read and locked

vars == <<codes, accounts, tokens, requests, call>>

-----------------------------------------------------------------------------

Purposes == {"login", "account_creation", "account_deletion"}

\* age: ticks since it was sent; held: ticks since the handle was verified.
\* Both stop at the age where nothing changes any more.
Code == [phone : Phones, purpose : Purposes, age : Nat, attempts : Nat,
         verified : BOOLEAN, held : Nat, consumed : BOOLEAN]

\* closedBy: the code whose handle deleted the account, 0 if none did.
Account == [phone : Phones, status : {"active", "suspended", "deleted"},
            closedBy : Nat]

\* family: the first token of the family; next: replaced_by_id, 0 if null;
\* openedBy: the code whose handle opened the family, 0 for a rotated token.
Token == [account : Nat, family : Nat, revoked : BOOLEAN, next : Nat,
          openedBy : Nat]

OpenStatuses == {"received", "in_review"}
Request == [phone : Phones, archived : BOOLEAN, madeBy : Nat,
            status : OpenStatuses \cup {"rejected", "cancelled", "completed"}]

Idle == [op |-> "idle"]
Call ==
    {Idle}
      \cup [op : {"send"}, phone : Phones, purpose : Purposes]
      \cup [op : {"verify", "apply"}, code : Nat]
      \cup [op : {"exchange"}, code : Nat, account : Nat]
      \cup [op : {"delete"}, code : Nat, account : Nat, saw : SUBSET Nat]
      \cup [op : {"suspend"}, account : Nat, saw : SUBSET Nat]
      \cup [op : {"activate"}, phone : Phones]
      \cup [op : {"link"}, request : Nat]
      \cup [op : {"rotate"}, token : Nat]
      \cup [op : {"revoke"}, token : Nat, saw : SUBSET Nat]

TypeOK ==
    /\ codes \in Seq(Code) /\ Len(codes) <= MaxCodes
    /\ accounts \in Seq(Account) /\ Len(accounts) <= MaxAccounts
    /\ tokens \in Seq(Token) /\ Len(tokens) <= MaxTokens
    /\ requests \in Seq(Request) /\ Len(requests) <= MaxRequests
    /\ call \in [Calls -> Call]

Init ==
    /\ codes = <<>>
    /\ accounts = <<>>
    /\ tokens = <<>>
    /\ requests = <<>>
    /\ call = [c \in Calls |-> Idle]

-----------------------------------------------------------------------------
(* Rows and locks.                                                         *)

Live(p) == {a \in DOMAIN accounts :
              accounts[a].phone = p /\ accounts[a].status \in {"active", "suspended"}}
Active(p) == {a \in Live(p) : accounts[a].status = "active"}
Pending(p) == {r \in DOMAIN requests :
                 /\ requests[r].phone = p
                 /\ requests[r].status \in OpenStatuses
                 /\ ~requests[r].archived}
LiveTokens == {t \in DOMAIN tokens : ~tokens[t].revoked}
Family(t) == {s \in DOMAIN tokens : tokens[s].family = tokens[t].family}

CodeLocked(i) ==
    \E c \in Calls : /\ call[c].op \in {"verify", "apply", "exchange", "delete"}
                     /\ call[c].code = i
AccountLocked(a) ==
    \E c \in Calls : call[c].op \in {"suspend", "delete"} /\ call[c].account = a
TokenLocked(t) == \E c \in Calls : call[c].op = "rotate" /\ call[c].token = t
RequestLocked(r) == \E c \in Calls : call[c].op = "link" /\ call[c].request = r

Begin(c, record) == call[c] = Idle /\ call' = [call EXCEPT ![c] = record]
End(c, op) == call[c].op = op /\ call' = [call EXCEPT ![c] = Idle]


\* Variant: the index of migration 365, which leaves suspended accounts out.
ActiveOnlyIndex(p) == Active(p) = {}

\* app_accounts_live_mobile_unique.
IndexAdmits(p) == Live(p) = {}

NewAccount(p) ==
    /\ Len(accounts) < MaxAccounts
    /\ accounts' = Append(accounts,
         [phone |-> p, status |-> "active", closedBy |-> 0])

\* insertRefreshToken.
NewToken(list, a, family, by) ==
    Append(list, [account |-> a, family |-> family, revoked |-> FALSE,
                  next |-> 0, openedBy |-> by])

-----------------------------------------------------------------------------
(* One-time codes.                                                         *)

MaySend(p, u) ==
    \/ u \in {"login", "account_deletion"} /\ Active(p) # {}
    \/ u = "account_creation" /\ Live(p) = {} /\ Pending(p) = {}

SentTo(p) == {i \in DOMAIN codes : codes[i].phone = p}
Unconsumed(p, u) ==
    {i \in SentTo(p) : codes[i].purpose = u /\ ~codes[i].consumed}
IsLatest(i, S) == i \in S /\ \A j \in S : j <= i

\* Variant: the ceiling is off by one.
CapAllowsOneMore(p) == DailyCap > 0 => Cardinality(SentTo(p)) <= DailyCap

UnderCap(p) == DailyCap > 0 => Cardinality(SentTo(p)) < DailyCap

Paced(p, u) ==
    \A i \in Unconsumed(p, u) : IsLatest(i, Unconsumed(p, u)) => codes[i].age >= ResendAge

SendCheck(c, p, u) ==
    /\ MaySend(p, u) /\ UnderCap(p) /\ Paced(p, u)
    /\ Begin(c, [op |-> "send", phone |-> p, purpose |-> u])
    /\ UNCHANGED <<codes, accounts, tokens, requests>>

\* The message is sent after the insert; whether it failed changes no column
\* that is read again.
SendInsert(c) ==
    /\ End(c, "send")
    /\ Len(codes) < MaxCodes
    /\ codes' = Append(codes,
         [phone |-> call[c].phone, purpose |-> call[c].purpose, age |-> 0,
          attempts |-> 0, verified |-> FALSE, held |-> 0, consumed |-> FALSE])
    /\ UNCHANGED <<accounts, tokens, requests>>

\* Variant: the row is read without FOR UPDATE.
VerifyReadUnlocked(c, i) ==
    /\ IsLatest(i, Unconsumed(codes[i].phone, codes[i].purpose))
    /\ codes[i].age < CodeAge
    /\ codes[i].attempts < MaxAttempts
    /\ Begin(c, [op |-> "verify", code |-> i])
    /\ UNCHANGED <<codes, accounts, tokens, requests>>

VerifyRead(c, i) ==
    /\ ~CodeLocked(i)
    /\ IsLatest(i, Unconsumed(codes[i].phone, codes[i].purpose))
    /\ codes[i].age < CodeAge
    /\ codes[i].attempts < MaxAttempts
    /\ Begin(c, [op |-> "verify", code |-> i])
    /\ UNCHANGED <<codes, accounts, tokens, requests>>

Compared(x, match) ==
    IF match THEN [x EXCEPT !.verified = TRUE, !.held = 0]
             ELSE [x EXCEPT !.attempts = @ + 1]

VerifyWrite(c, match) ==
    /\ End(c, "verify")
    /\ codes' = [codes EXCEPT ![call[c].code] = Compared(@, match)]
    /\ UNCHANGED <<accounts, tokens, requests>>

Older(n, limit) == IF n < limit THEN n + 1 ELSE n

Aged(x) ==
    IF x.consumed THEN x
    ELSE [x EXCEPT !.age = Older(@, CodeAge),
                   !.held = IF x.verified THEN Older(@, HandleAge) ELSE @]

Tick ==
    /\ codes' = [i \in DOMAIN codes |-> Aged(codes[i])]
    /\ UNCHANGED <<accounts, tokens, requests, call>>

\* Variant: a handle may be used again.
GoodHandleUsedTwice(i, u) ==
    /\ ~CodeLocked(i)
    /\ codes[i].purpose = u /\ codes[i].verified /\ codes[i].held < HandleAge

\* The checks every use of a handle makes on the row it has locked.
GoodHandle(i, u) ==
    /\ ~CodeLocked(i)
    /\ codes[i].purpose = u
    /\ codes[i].verified /\ ~codes[i].consumed
    /\ codes[i].held < HandleAge

Consume(i) == codes' = [codes EXCEPT ![i].consumed = TRUE]

-----------------------------------------------------------------------------
(* Sessions.                                                               *)

\* exchangeLoginHandle: the account is read without a lock.
ExchangeRead(c, i, a) ==
    /\ GoodHandle(i, "login")
    /\ a \in Active(codes[i].phone)
    /\ Begin(c, [op |-> "exchange", code |-> i, account |-> a])
    /\ UNCHANGED <<codes, accounts, tokens, requests>>

ExchangeCommit(c) ==
    /\ End(c, "exchange")
    /\ ~AccountLocked(call[c].account)
    /\ Len(tokens) < MaxTokens
    /\ Consume(call[c].code)
    /\ tokens' = NewToken(tokens, call[c].account, Len(tokens) + 1, call[c].code)
    /\ UNCHANGED <<accounts, requests>>

\* Variant: the token is read without FOR UPDATE.
RefreshReadUnlocked(c, t) ==
    /\ ~tokens[t].revoked
    /\ accounts[tokens[t].account].status = "active"
    /\ Begin(c, [op |-> "rotate", token |-> t])
    /\ UNCHANGED <<codes, accounts, tokens, requests>>

\* refreshTokens up to the rotation; the account is read without a lock.
RefreshRead(c, t) ==
    /\ ~TokenLocked(t)
    /\ ~tokens[t].revoked
    /\ accounts[tokens[t].account].status = "active"
    /\ Begin(c, [op |-> "rotate", token |-> t])
    /\ UNCHANGED <<codes, accounts, tokens, requests>>

\* Variant: nothing makes the insert wait for the account.
RotateCommitUnreferenced(c) ==
    /\ End(c, "rotate")
    /\ Len(tokens) < MaxTokens
    /\ LET t == call[c].token IN
         tokens' = NewToken([tokens EXCEPT ![t].revoked = TRUE, ![t].next = Len(tokens) + 1],
                            tokens[t].account, tokens[t].family, 0)
    /\ UNCHANGED <<codes, accounts, requests>>

RotateCommit(c) ==
    /\ End(c, "rotate")
    /\ ~AccountLocked(tokens[call[c].token].account)
    /\ Len(tokens) < MaxTokens
    /\ LET t == call[c].token IN
         tokens' = NewToken([tokens EXCEPT ![t].revoked = TRUE, ![t].next = Len(tokens) + 1],
                            tokens[t].account, tokens[t].family, 0)
    /\ UNCHANGED <<codes, accounts, requests>>

Revoked(S) == [t \in DOMAIN tokens |->
                 IF t \in S THEN [tokens[t] EXCEPT !.revoked = TRUE] ELSE tokens[t]]

\* The statement that revokes a family begins: logout of any of its tokens, or
\* a refresh with one that was rotated away.
RevokeFamilyStart(c, t) ==
    /\ Begin(c, [op |-> "revoke", token |-> t, saw |-> Family(t) \cap LiveTokens])
    /\ UNCHANGED <<codes, accounts, tokens, requests>>

\* It has waited for the rows it saw, and revokes those still live.
RevokeFamilyEnd(c) ==
    /\ End(c, "revoke")
    /\ \A t \in call[c].saw : ~TokenLocked(t)
    /\ tokens' = Revoked(call[c].saw)
    /\ UNCHANGED <<codes, accounts, requests>>

-----------------------------------------------------------------------------
(* Accounts.                                                               *)

SessionsOf(a) == {t \in LiveTokens : tokens[t].account = a}

\* The statement that revokes the sessions it saw, once it has waited for those
\* being rotated.
RevokeSessions(saw) ==
    /\ \A t \in saw : ~TokenLocked(t)
    /\ tokens' = Revoked(saw)

\* The account's row is locked and the statement that revokes its sessions sees
\* them; the new status is not visible before the commit.
SuspendLock(c, a) ==
    /\ ~AccountLocked(a)
    /\ accounts[a].status = "active"
    /\ Begin(c, [op |-> "suspend", account |-> a, saw |-> SessionsOf(a)])
    /\ UNCHANGED <<codes, accounts, tokens, requests>>

SuspendCommit(c) ==
    /\ End(c, "suspend")
    /\ accounts' = [accounts EXCEPT ![call[c].account].status = "suspended"]
    /\ RevokeSessions(call[c].saw)
    /\ UNCHANGED <<codes, requests>>

Reactivate(a) ==
    /\ ~AccountLocked(a)
    /\ accounts[a].status = "suspended"
    /\ Active(accounts[a].phone) = {}
    /\ accounts' = [accounts EXCEPT ![a].status = "active"]
    /\ UNCHANGED <<codes, tokens, requests, call>>

\* deleteAccountByVerifiedHandle: an active account before a suspended one.
DeleteLock(c, i, a) ==
    /\ GoodHandle(i, "account_deletion")
    /\ a \in Live(codes[i].phone)
    /\ Active(codes[i].phone) # {} => a \in Active(codes[i].phone)
    /\ ~AccountLocked(a)
    /\ Begin(c, [op |-> "delete", code |-> i, account |-> a, saw |-> SessionsOf(a)])
    /\ UNCHANGED <<codes, accounts, tokens, requests>>

DeleteCommit(c) ==
    /\ End(c, "delete")
    /\ Consume(call[c].code)
    /\ accounts' = [accounts EXCEPT ![call[c].account].status = "deleted",
                                    ![call[c].account].closedBy = call[c].code]
    /\ RevokeSessions(call[c].saw)
    /\ UNCHANGED requests

\* tryActivate, for one client or each of a batch.
ActivateRead(c, p) ==
    /\ Live(p) = {}
    /\ Begin(c, [op |-> "activate", phone |-> p])
    /\ UNCHANGED <<codes, accounts, tokens, requests>>

ActivateCommit(c) ==
    /\ End(c, "activate")
    /\ IF IndexAdmits(call[c].phone) THEN NewAccount(call[c].phone)
                                     ELSE UNCHANGED accounts
    /\ UNCHANGED <<codes, tokens, requests>>

-----------------------------------------------------------------------------
(* Requests for an account.                                                *)

ApplyRead(c, i) ==
    /\ GoodHandle(i, "account_creation")
    /\ Live(codes[i].phone) = {}
    /\ Pending(codes[i].phone) = {}
    /\ Begin(c, [op |-> "apply", code |-> i])
    /\ UNCHANGED <<codes, accounts, tokens, requests>>

ApplyCommit(c) ==
    /\ End(c, "apply")
    /\ Len(requests) < MaxRequests
    /\ Consume(call[c].code)
    /\ requests' = Append(requests,
         [phone |-> codes[call[c].code].phone, archived |-> FALSE,
          madeBy |-> call[c].code, status |-> "received"])
    /\ UNCHANGED <<accounts, tokens>>

LinkRead(c, r) ==
    /\ ~RequestLocked(r)
    /\ requests[r].status = "in_review"
    /\ Live(requests[r].phone) = {}
    /\ Begin(c, [op |-> "link", request |-> r])
    /\ UNCHANGED <<codes, accounts, tokens, requests>>

\* A number taken meanwhile fails the insert, and the call rolls back.
LinkCommit(c) ==
    /\ End(c, "link")
    /\ LET r == call[c].request IN
         IF IndexAdmits(requests[r].phone)
         THEN /\ NewAccount(requests[r].phone)
              /\ requests' = [requests EXCEPT ![r].status = "completed"]
         ELSE UNCHANGED <<accounts, requests>>
    /\ UNCHANGED <<codes, tokens>>

\* The transitions of the shared state machine (module ServiceRequests) that
\* account requests use, by the statuses they leave.
Move(r, from, to) ==
    /\ ~RequestLocked(r)
    /\ requests[r].status \in from
    /\ requests' = [requests EXCEPT ![r].status = to]
    /\ UNCHANGED <<codes, accounts, tokens, call>>

Claim(r) == Move(r, {"received"}, "in_review")
Reject(r) == Move(r, {"in_review"}, "rejected")
Cancel(r) == Move(r, OpenStatuses, "cancelled")
Reopen(r) == ~requests[r].archived /\ Move(r, {"rejected", "cancelled"}, "in_review")

SetArchived(r) ==
    /\ ~RequestLocked(r)
    /\ ~requests[r].archived => requests[r].status \notin OpenStatuses
    /\ requests' = [requests EXCEPT ![r].archived = ~@]
    /\ UNCHANGED <<codes, accounts, tokens, call>>

-----------------------------------------------------------------------------

\* A process stops, a statement fails, or PostgreSQL breaks a deadlock: a call
\* rolls back.  (A rotation waits for the account that a suspension holds while
\* the suspension waits for the token the rotation holds.)
Abort(c) ==
    /\ call[c] # Idle
    /\ call' = [call EXCEPT ![c] = Idle]
    /\ UNCHANGED <<codes, accounts, tokens, requests>>

CodeStep(c) ==
    \/ \E p \in Phones, u \in Purposes : SendCheck(c, p, u)
    \/ SendInsert(c)
    \/ \E i \in DOMAIN codes : VerifyRead(c, i)
    \/ \E match \in BOOLEAN : VerifyWrite(c, match)

SessionStep(c) ==
    \/ \E i \in DOMAIN codes, a \in DOMAIN accounts : ExchangeRead(c, i, a)
    \/ ExchangeCommit(c)
    \/ \E t \in DOMAIN tokens : RefreshRead(c, t) \/ RevokeFamilyStart(c, t)
    \/ RotateCommit(c)
    \/ RevokeFamilyEnd(c)

AccountStep(c) ==
    \/ \E a \in DOMAIN accounts : SuspendLock(c, a)
    \/ SuspendCommit(c)
    \/ \E i \in DOMAIN codes, a \in DOMAIN accounts : DeleteLock(c, i, a)
    \/ DeleteCommit(c)
    \/ \E p \in Phones : ActivateRead(c, p)
    \/ ActivateCommit(c)

RequestStep(c) ==
    \/ \E i \in DOMAIN codes : ApplyRead(c, i)
    \/ ApplyCommit(c)
    \/ \E r \in DOMAIN requests : LinkRead(c, r)
    \/ LinkCommit(c)

Triage(r) == Claim(r) \/ Reject(r) \/ Cancel(r) \/ Reopen(r) \/ SetArchived(r)

Next ==
    \/ \E c \in Calls :
         CodeStep(c) \/ SessionStep(c) \/ AccountStep(c) \/ RequestStep(c) \/ Abort(c)
    \/ \E a \in DOMAIN accounts : Reactivate(a)
    \/ \E r \in DOMAIN requests : Triage(r)
    \/ Tick

Spec == Init /\ [][Next]_vars

-----------------------------------------------------------------------------
(* Properties.                                                             *)

\* A proof of ownership is worth one thing: over its life a handle opens at most
\* one session family, files one request or deletes one account, whatever calls
\* present it at once (otpService, appAuthService, accountRequestService and
\* accountDeletionService each check and consume it in their own transaction).
HandleBuysOnce ==
    \A i \in DOMAIN codes :
        Cardinality({t \in DOMAIN tokens : tokens[t].openedBy = i})
          + Cardinality({r \in DOMAIN requests : requests[r].madeBy = i})
          + Cardinality({a \in DOMAIN accounts : accounts[a].closedBy = i}) <= 1

\* Guesses made at the same time cannot exceed max_attempts: the attempt is
\* counted on the row the comparison was made on.
GuessesBounded == \A i \in DOMAIN codes : codes[i].attempts <= MaxAttempts

\* The daily ceiling holds up to the calls that were checked before a message
\* of theirs was counted.
SendsBounded ==
    DailyCap > 0 =>
      \A p \in Phones : Cardinality(SentTo(p)) < DailyCap + Cardinality(Calls)

\* Refreshes, replays and logouts of one session never leave it with two live
\* tokens: the theft detection rests on there being one successor.
OneLiveTokenPerFamily ==
    \A s, t \in LiveTokens : tokens[s].family = tokens[t].family => s = t

\* A phone number has at most one account that is active or suspended, however
\* staff activations, linked requests, suspensions, reactivations and deletions
\* interleave.
OneLiveAccountPerNumber ==
    \A a, b \in DOMAIN accounts :
        a \in Live(accounts[b].phone) /\ b \in Live(accounts[b].phone) => a = b

\* The step that suspends or deletes an account leaves it without a live
\* session: a rotation in flight either commits before and is revoked, or fails.
ClosingEndsSessions ==
    [][\A a \in DOMAIN accounts :
         accounts[a].status # accounts'[a].status /\ accounts'[a].status # "active"
           => SessionsOf(a)' = {}]_vars
=============================================================================
