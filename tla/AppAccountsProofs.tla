--------------------------- MODULE AppAccountsProofs ---------------------------
(***************************************************************************)
(* Theorems about AppAccounts, for any phones, calls, limits and ages.      *)
(***************************************************************************)
EXTENDS AppAccounts, SequenceTheorems, FiniteSetTheorems, TLAPS

-----------------------------------------------------------------------------
(* Types.  The rows a call has read, and the accounts of tokens, exist.     *)

UsesCode == {"verify", "apply", "exchange", "delete"}
UsesAccount == {"exchange", "suspend", "delete"}
Revokes == {"suspend", "delete", "revoke"}

References ==
    /\ \A c \in Calls :
         /\ call[c].op \in UsesCode => call[c].code \in DOMAIN codes
         /\ call[c].op \in UsesAccount => call[c].account \in DOMAIN accounts
         /\ call[c].op \in {"rotate", "revoke"} => call[c].token \in DOMAIN tokens
         /\ call[c].op \in Revokes => call[c].saw \subseteq DOMAIN tokens
         /\ call[c].op = "link" => call[c].request \in DOMAIN requests
    /\ \A t \in DOMAIN tokens : tokens[t].account \in DOMAIN accounts

Typed == TypeOK /\ References

LEMMA Lengths ==
    ASSUME TypeOK
    PROVE  /\ Len(codes) \in Nat /\ DOMAIN codes = 1..Len(codes)
           /\ Len(accounts) \in Nat /\ DOMAIN accounts = 1..Len(accounts)
           /\ Len(tokens) \in Nat /\ DOMAIN tokens = 1..Len(tokens)
           /\ Len(requests) \in Nat /\ DOMAIN requests = 1..Len(requests)
           /\ \A i \in DOMAIN codes : codes[i] \in Code
           /\ \A a \in DOMAIN accounts : accounts[a] \in Account
           /\ \A t \in DOMAIN tokens : tokens[t] \in Token
           /\ \A r \in DOMAIN requests : requests[r] \in Request
  BY LenProperties, ElementOfSeq DEF TypeOK

LEMMA CallFields ==
    ASSUME NEW x \in Call
    PROVE  /\ x.op = "send" => x.phone \in Phones /\ x.purpose \in Purposes
           /\ x.op \in UsesCode => x.code \in Nat
           /\ x.op \in UsesAccount => x.account \in Nat
           /\ x.op = "activate" => x.phone \in Phones
           /\ x.op = "link" => x.request \in Nat
           /\ x.op \in {"rotate", "revoke"} => x.token \in Nat
           /\ x.op \in Revokes => x.saw \in SUBSET Nat
  BY DEF Call, Idle, UsesCode, UsesAccount, Revokes

LEMMA CallType ==
    ASSUME TypeOK, NEW c \in Calls, NEW x \in Call
    PROVE  [call EXCEPT ![c] = x] \in [Calls -> Call]
  BY DEF TypeOK

\* A row added to a table.
LEMMA Added ==
    ASSUME NEW S, NEW list \in Seq(S), NEW x \in S
    PROVE  /\ Append(list, x) \in Seq(S)
           /\ Len(Append(list, x)) = Len(list) + 1
           /\ DOMAIN Append(list, x) = 1..(Len(list) + 1)
           /\ Append(list, x)[Len(list) + 1] = x
           /\ \A i \in 1..Len(list) : Append(list, x)[i] = list[i]
  <1>1. Len(list) \in Nat
    BY LenProperties
  <1>2. QED
    BY <1>1

\* A row of a table replaced.
LEMMA OneRow ==
    ASSUME NEW S, NEW list \in Seq(S), NEW i \in 1..Len(list), NEW x \in S,
           NEW new, new = [list EXCEPT ![i] = x]
    PROVE  /\ new \in Seq(S) /\ Len(new) = Len(list)
           /\ \A j \in 1..Len(list) : new[j] = IF j = i THEN x ELSE list[j]
  BY ExceptSeq

\* A table whose rows are changed in place.
LEMMA Changed ==
    ASSUME NEW S, NEW list \in Seq(S), NEW new, DOMAIN new = DOMAIN list,
           new = [i \in DOMAIN list |-> new[i]], \A i \in DOMAIN list : new[i] \in S
    PROVE  new \in Seq(S) /\ Len(new) = Len(list)
  <1>1. Len(list) \in Nat /\ DOMAIN list = 1..Len(list)
    BY LenProperties
  <1>2. new \in [1..Len(list) -> S]
    BY <1>1
  <1>3. QED
    BY <1>1, <1>2

-----------------------------------------------------------------------------
(* What a step does to the rows of each table: rows are added at the end, and *)
(* the rows that were there change in these fields only.                      *)

CodeRows(spent, guessed, n) ==
    /\ codes' \in Seq(Code) /\ Len(codes') = Len(codes) + n
    /\ Len(codes') <= MaxCodes /\ DOMAIN codes' = 1..(Len(codes) + n)
    /\ \A i \in DOMAIN codes :
         /\ codes'[i].phone = codes[i].phone
         /\ codes'[i].consumed <=> (codes[i].consumed \/ i \in spent)
         /\ codes'[i].attempts = IF i \in guessed THEN codes[i].attempts + 1 ELSE codes[i].attempts

TokenRows(ended, n) ==
    /\ tokens' \in Seq(Token) /\ Len(tokens') = Len(tokens) + n
    /\ Len(tokens') <= MaxTokens /\ DOMAIN tokens' = 1..(Len(tokens) + n)
    /\ \A t \in DOMAIN tokens :
         /\ tokens'[t].account = tokens[t].account
         /\ tokens'[t].family = tokens[t].family
         /\ tokens'[t].openedBy = tokens[t].openedBy
         /\ tokens'[t].revoked <=> (tokens[t].revoked \/ t \in ended)

AccountRows(moved, to, by, n) ==
    /\ accounts' \in Seq(Account) /\ Len(accounts') = Len(accounts) + n
    /\ Len(accounts') <= MaxAccounts /\ DOMAIN accounts' = 1..(Len(accounts) + n)
    /\ \A a \in DOMAIN accounts :
         /\ accounts'[a].phone = accounts[a].phone
         /\ accounts'[a].status = IF a \in moved THEN to ELSE accounts[a].status
         /\ accounts'[a].closedBy =
              IF a \in moved /\ to = "deleted" THEN by ELSE accounts[a].closedBy

RequestRows(n) ==
    /\ requests' \in Seq(Request) /\ Len(requests') = Len(requests) + n
    /\ Len(requests') <= MaxRequests /\ DOMAIN requests' = 1..(Len(requests) + n)
    /\ \A r \in DOMAIN requests : requests'[r].madeBy = requests[r].madeBy

LEMMA CodesSame == TypeOK /\ codes' = codes => CodeRows({}, {}, 0)
  BY Lengths DEF TypeOK, CodeRows

LEMMA TokensSame == TypeOK /\ tokens' = tokens => TokenRows({}, 0)
  BY Lengths DEF TypeOK, TokenRows

LEMMA AccountsSame == TypeOK /\ accounts' = accounts => AccountRows({}, "active", 0, 0)
  BY Lengths DEF TypeOK, AccountRows

LEMMA RequestsSame == TypeOK /\ requests' = requests => RequestRows(0)
  BY Lengths DEF TypeOK, RequestRows

LEMMA RevokedRows ==
    ASSUME TypeOK, NEW S, tokens' = Revoked(S)
    PROVE  TokenRows(S, 0)
  <1>1. \A t \in DOMAIN tokens : tokens[t] \in Token
    BY Lengths
  <1>2. \A t \in DOMAIN tokens : [tokens[t] EXCEPT !.revoked = TRUE] \in Token
    BY <1>1 DEF Token
  <1>3. /\ DOMAIN tokens' = DOMAIN tokens /\ tokens' = [t \in DOMAIN tokens |-> tokens'[t]]
        /\ \A t \in DOMAIN tokens : tokens'[t] =
             IF t \in S THEN [tokens[t] EXCEPT !.revoked = TRUE] ELSE tokens[t]
    BY DEF Revoked
  <1>4. tokens' \in Seq(Token) /\ Len(tokens') = Len(tokens)
    <2>1. \A t \in DOMAIN tokens : tokens'[t] \in Token
      BY <1>1, <1>2, <1>3
    <2>2. QED
      BY <1>3, <2>1, Changed DEF TypeOK
  <1>5. \A t \in DOMAIN tokens :
             /\ tokens'[t].account = tokens[t].account
             /\ tokens'[t].family = tokens[t].family
             /\ tokens'[t].openedBy = tokens[t].openedBy
             /\ tokens'[t].revoked <=> (tokens[t].revoked \/ t \in S)
    BY <1>1, <1>3 DEF Token
  <1>6. QED
    BY <1>3, <1>4, <1>5, Lengths DEF TokenRows, TypeOK

LEMMA SendInsertRows ==
    ASSUME TypeOK, NEW c \in Calls, SendInsert(c)
    PROVE  /\ CodeRows({}, {}, 1)
           /\ codes'[Len(codes) + 1].phone = call[c].phone
           /\ codes'[Len(codes) + 1].attempts = 0 /\ ~codes'[Len(codes) + 1].consumed
  <1> DEFINE x == [phone |-> call[c].phone, purpose |-> call[c].purpose, age |-> 0,
                   attempts |-> 0, verified |-> FALSE, held |-> 0, consumed |-> FALSE]
  <1>1. call[c].phone \in Phones /\ call[c].purpose \in Purposes
    BY CallFields DEF SendInsert, End, TypeOK
  <1>2. x \in Code /\ ~x.consumed /\ x.attempts = 0 /\ x.phone = call[c].phone
    BY <1>1 DEF Code
  <1>3. codes' = Append(codes, x) /\ Len(codes) < MaxCodes
    BY DEF SendInsert
  <1> HIDE DEF x
  <1>4. codes' \in Seq(Code) /\ Len(codes') = Len(codes) + 1 /\ DOMAIN codes' = 1..(Len(codes) + 1)
        /\ codes'[Len(codes) + 1] = x /\ \A i \in 1..Len(codes) : codes'[i] = codes[i]
    BY <1>2, <1>3, Added DEF TypeOK
  <1>5. QED
    BY <1>2, <1>3, <1>4, Lengths, AccountsAssumption DEF AccountsAssumption, CodeRows

LEMMA VerifyWriteRows ==
    ASSUME Typed, NEW c \in Calls, NEW match \in BOOLEAN, VerifyWrite(c, match)
    PROVE  CodeRows({}, IF match THEN {} ELSE {call[c].code}, 0)
  <1> DEFINE i == call[c].code
  <1> DEFINE x == Compared(codes[i], match)
  <1>1. i \in DOMAIN codes
    BY DEF VerifyWrite, End, Typed, References, UsesCode
  <1>2. codes[i] \in Code
    BY <1>1, Lengths DEF Typed
  <1>3. /\ x \in Code /\ x.phone = codes[i].phone /\ (x.consumed <=> codes[i].consumed)
        /\ x.attempts = IF match THEN codes[i].attempts ELSE codes[i].attempts + 1
    <2>1. CASE match = TRUE
      BY <1>2, <2>1 DEF Code, Compared
    <2>2. CASE match = FALSE
      BY <1>2, <2>2 DEF Code, Compared
    <2>3. QED
      BY <2>1, <2>2
  <1>4. codes' = [codes EXCEPT ![i] = x]
    BY DEF VerifyWrite
  <1> HIDE DEF x, i
  <1>5. codes' \in Seq(Code) /\ Len(codes') = Len(codes)
        /\ \A j \in 1..Len(codes) : codes'[j] = IF j = i THEN x ELSE codes[j]
    BY <1>1, <1>3, <1>4, Lengths, ExceptSeq DEF Typed, TypeOK
  <1>6. DOMAIN codes' = 1..(Len(codes) + 0)
    BY <1>5, Lengths, LenProperties DEF Typed
  <1>7. QED
    BY <1>3, <1>5, <1>6, Lengths DEF Typed, TypeOK, CodeRows, i

LEMMA TickRows == TypeOK /\ Tick => CodeRows({}, {}, 0)
  <1> SUFFICES ASSUME TypeOK, Tick PROVE CodeRows({}, {}, 0)
    OBVIOUS
  <1>0. \A n, limit \in Nat : Older(n, limit) \in Nat
    BY DEF Older
  <1>1. /\ DOMAIN codes' = DOMAIN codes /\ codes' = [i \in DOMAIN codes |-> codes'[i]]
        /\ \A i \in DOMAIN codes : codes'[i] = Aged(codes[i])
    BY DEF Tick
  <1>2. ASSUME NEW x \in Code
        PROVE  /\ Aged(x) \in Code
               /\ Aged(x).phone = x.phone /\ (Aged(x).consumed <=> x.consumed)
               /\ Aged(x).attempts = x.attempts
    <2>1. Older(x.age, CodeAge) \in Nat /\ Older(x.held, HandleAge) \in Nat
      BY <1>0, AccountsAssumption DEF AccountsAssumption, Code
    <2>2. QED
      BY <2>1 DEF Code, Aged
  <1>3. codes' \in Seq(Code) /\ Len(codes') = Len(codes)
    BY <1>1, <1>2, Lengths, Changed DEF TypeOK
  <1>4. QED
    BY <1>1, <1>2, <1>3, Lengths DEF CodeRows, TypeOK

LEMMA ConsumeRows ==
    ASSUME TypeOK, NEW i \in DOMAIN codes, Consume(i)
    PROVE  CodeRows({i}, {}, 0)
  <1> DEFINE x == [codes[i] EXCEPT !.consumed = TRUE]
  <1>1. codes[i] \in Code
    BY Lengths
  <1>2. x \in Code /\ x.phone = codes[i].phone /\ x.consumed /\ x.attempts = codes[i].attempts
    BY <1>1 DEF Code
  <1>3. codes' = [codes EXCEPT ![i] = x]
    BY DEF Consume
  <1> HIDE DEF x
  <1>4. codes' \in Seq(Code) /\ Len(codes') = Len(codes)
        /\ \A j \in 1..Len(codes) : codes'[j] = IF j = i THEN x ELSE codes[j]
    BY <1>2, <1>3, Lengths, ExceptSeq DEF TypeOK
  <1>5. DOMAIN codes' = 1..(Len(codes) + 0)
    BY <1>4, Lengths, LenProperties
  <1>6. \A j \in DOMAIN codes : codes[j].consumed \in BOOLEAN
    BY Lengths DEF Code
  <1>7. QED
    BY <1>2, <1>4, <1>5, <1>6, Lengths DEF TypeOK, CodeRows

\* The tokens but for those ended.
LikeTokens(list, ended) ==
    /\ list \in Seq(Token) /\ Len(list) = Len(tokens)
    /\ \A t \in DOMAIN tokens :
         /\ list[t].account = tokens[t].account
         /\ list[t].family = tokens[t].family
         /\ list[t].openedBy = tokens[t].openedBy
         /\ list[t].revoked <=> (tokens[t].revoked \/ t \in ended)

LEMMA NewTokenRows ==
    ASSUME TypeOK, NEW ended, NEW list, LikeTokens(list, ended),
           NEW a \in Nat, NEW f \in Nat, NEW by \in Nat,
           Len(tokens) < MaxTokens, tokens' = NewToken(list, a, f, by)
    PROVE  /\ TokenRows(ended, 1)
           /\ tokens'[Len(tokens) + 1].account = a /\ tokens'[Len(tokens) + 1].family = f
           /\ tokens'[Len(tokens) + 1].openedBy = by /\ ~tokens'[Len(tokens) + 1].revoked
  <1> DEFINE x == [account |-> a, family |-> f, revoked |-> FALSE, next |-> 0, openedBy |-> by]
  <1>1. x \in Token /\ x.account = a /\ x.family = f /\ x.openedBy = by /\ ~x.revoked
    BY DEF Token
  <1>2. tokens' = Append(list, x)
    BY DEF NewToken
  <1> HIDE DEF x
  <1>3. tokens' \in Seq(Token) /\ Len(tokens') = Len(list) + 1 /\ DOMAIN tokens' = 1..(Len(list) + 1)
        /\ tokens'[Len(list) + 1] = x /\ \A t \in 1..Len(list) : tokens'[t] = list[t]
    BY <1>1, <1>2, Added DEF LikeTokens
  <1>4. QED
    BY <1>1, <1>3, Lengths, AccountsAssumption DEF AccountsAssumption, TokenRows, LikeTokens

LEMMA ExchangeRows ==
    ASSUME Typed, NEW c \in Calls, ExchangeCommit(c)
    PROVE  /\ CodeRows({call[c].code}, {}, 0) /\ TokenRows({}, 1)
           /\ tokens'[Len(tokens) + 1].account = call[c].account
           /\ tokens'[Len(tokens) + 1].family = Len(tokens) + 1
           /\ tokens'[Len(tokens) + 1].openedBy = call[c].code
           /\ ~tokens'[Len(tokens) + 1].revoked
  <1>1. call[c].code \in DOMAIN codes /\ call[c].account \in DOMAIN accounts
    BY DEF ExchangeCommit, End, Typed, References, UsesCode, UsesAccount
  <1>2. CodeRows({call[c].code}, {}, 0)
    BY <1>1, ConsumeRows DEF ExchangeCommit, Typed
  <1>3. call[c].code \in Nat /\ call[c].account \in Nat /\ Len(tokens) + 1 \in Nat
    BY <1>1, Lengths DEF Typed
  <1>4. tokens' = NewToken(tokens, call[c].account, Len(tokens) + 1, call[c].code)
        /\ Len(tokens) < MaxTokens
    BY DEF ExchangeCommit
  <1>5. tokens \in Seq(Token)
    BY DEF Typed, TypeOK
  <1>6. LikeTokens(tokens, {})
    BY <1>5 DEF LikeTokens
  <1>7. TypeOK
    BY DEF Typed
  <1>8. QED
    BY <1>2, <1>3, <1>4, <1>6, <1>7, NewTokenRows

LEMMA RotateRows ==
    ASSUME Typed, NEW c \in Calls, RotateCommit(c)
    PROVE  /\ call[c].token \in DOMAIN tokens
           /\ TokenRows({call[c].token}, 1)
           /\ tokens'[Len(tokens) + 1].account = tokens[call[c].token].account
           /\ tokens'[Len(tokens) + 1].family = tokens[call[c].token].family
           /\ tokens'[Len(tokens) + 1].openedBy = 0
           /\ ~tokens'[Len(tokens) + 1].revoked
  <1> DEFINE t == call[c].token
  <1> DEFINE x == [[tokens[t] EXCEPT !.revoked = TRUE] EXCEPT !.next = Len(tokens) + 1]
  <1> DEFINE list == [tokens EXCEPT ![t].revoked = TRUE, ![t].next = Len(tokens) + 1]
  <1>1. t \in DOMAIN tokens
    BY DEF RotateCommit, End, Typed, References
  <1>2. tokens[t] \in Token /\ Len(tokens) + 1 \in Nat
    BY <1>1, Lengths DEF Typed
  <1>3. x \in Token /\ x.account = tokens[t].account /\ x.family = tokens[t].family
        /\ x.openedBy = tokens[t].openedBy /\ x.revoked
    BY <1>2 DEF Token
  <1>4. list = [tokens EXCEPT ![t] = x]
    BY <1>1
  <1>5. tokens' = NewToken(list, tokens[t].account, tokens[t].family, 0) /\ Len(tokens) < MaxTokens
    BY DEF RotateCommit
  <1>6. tokens[t].account \in Nat /\ tokens[t].family \in Nat
    BY <1>2 DEF Token
  <1> HIDE DEF x, list, t
  <1>7. list \in Seq(Token) /\ Len(list) = Len(tokens)
        /\ \A s \in 1..Len(tokens) : list[s] = IF s = t THEN x ELSE tokens[s]
    BY <1>1, <1>3, <1>4, Lengths, ExceptSeq DEF Typed, TypeOK
  <1>8. LikeTokens(list, {t})
    BY <1>3, <1>7, Lengths DEF Typed, LikeTokens
  <1>9. TypeOK
    BY DEF Typed
  <1>10. /\ TokenRows({t}, 1)
         /\ tokens'[Len(tokens) + 1].account = tokens[t].account
         /\ tokens'[Len(tokens) + 1].family = tokens[t].family
         /\ tokens'[Len(tokens) + 1].openedBy = 0 /\ ~tokens'[Len(tokens) + 1].revoked
    BY <1>5, <1>6, <1>8, <1>9, NewTokenRows
  <1>11. QED
    BY <1>1, <1>10 DEF t

\* One account takes a new status; the deletion records its code.
LEMMA MovedRows ==
    ASSUME TypeOK, NEW a \in DOMAIN accounts, NEW to \in {"active", "suspended", "deleted"},
           NEW by \in Nat,
           accounts' = IF to = "deleted"
                       THEN [accounts EXCEPT ![a].status = to, ![a].closedBy = by]
                       ELSE [accounts EXCEPT ![a].status = to]
    PROVE  AccountRows({a}, to, by, 0)
  <1> DEFINE x == IF to = "deleted"
                  THEN [[accounts[a] EXCEPT !.status = to] EXCEPT !.closedBy = by]
                  ELSE [accounts[a] EXCEPT !.status = to]
  <1>1. accounts[a] \in Account
    BY Lengths
  <1>2. /\ x \in Account /\ x.phone = accounts[a].phone /\ x.status = to
        /\ x.closedBy = IF to = "deleted" THEN by ELSE accounts[a].closedBy
    BY <1>1 DEF Account
  <1>3. accounts' = [accounts EXCEPT ![a] = x]
    <2>1. CASE to = "deleted"
      BY <2>1
    <2>2. CASE to # "deleted"
      BY <2>2
    <2>3. QED
      BY <2>1, <2>2
  <1> HIDE DEF x
  <1>4. accounts' \in Seq(Account) /\ Len(accounts') = Len(accounts)
        /\ \A b \in 1..Len(accounts) : accounts'[b] = IF b = a THEN x ELSE accounts[b]
    <2>1. accounts \in Seq(Account) /\ a \in 1..Len(accounts)
      BY Lengths DEF TypeOK
    <2>2. x \in Account
      BY <1>2
    <2>3. QED
      BY <1>3, <2>1, <2>2, OneRow
  <1>5. DOMAIN accounts' = 1..(Len(accounts) + 0)
    BY <1>4, Lengths, LenProperties
  <1>6. QED
    BY <1>2, <1>4, <1>5, Lengths DEF AccountRows, TypeOK

LEMMA SuspendRows ==
    ASSUME Typed, NEW c \in Calls, SuspendCommit(c)
    PROVE  /\ call[c].account \in DOMAIN accounts
           /\ AccountRows({call[c].account}, "suspended", 0, 0) /\ TokenRows(call[c].saw, 0)
  <1>1. call[c].account \in DOMAIN accounts
    BY DEF SuspendCommit, End, Typed, References, UsesAccount
  <1>2. accounts' = [accounts EXCEPT ![call[c].account].status = "suspended"]
    BY DEF SuspendCommit
  <1>3. AccountRows({call[c].account}, "suspended", 0, 0)
    BY <1>1, <1>2, MovedRows DEF Typed
  <1>4. QED
    BY <1>1, <1>3, RevokedRows DEF SuspendCommit, RevokeSessions, Typed

LEMMA ReactivateRows ==
    ASSUME TypeOK, NEW a \in DOMAIN accounts, Reactivate(a)
    PROVE  AccountRows({a}, "active", 0, 0)
  <1>1. accounts' = [accounts EXCEPT ![a].status = "active"]
    BY DEF Reactivate
  <1>2. QED
    BY <1>1, MovedRows

LEMMA DeleteRows ==
    ASSUME Typed, NEW c \in Calls, DeleteCommit(c)
    PROVE  /\ call[c].account \in DOMAIN accounts /\ call[c].code \in DOMAIN codes
           /\ CodeRows({call[c].code}, {}, 0)
           /\ AccountRows({call[c].account}, "deleted", call[c].code, 0)
           /\ TokenRows(call[c].saw, 0)
  <1>1. call[c].account \in DOMAIN accounts /\ call[c].code \in DOMAIN codes
    BY DEF DeleteCommit, End, Typed, References, UsesAccount, UsesCode
  <1>2. CodeRows({call[c].code}, {}, 0)
    BY <1>1, ConsumeRows DEF DeleteCommit, Typed
  <1>3. accounts' = [accounts EXCEPT ![call[c].account].status = "deleted",
                                     ![call[c].account].closedBy = call[c].code]
        /\ call[c].code \in Nat
    BY <1>1, Lengths DEF DeleteCommit, Typed
  <1>4. AccountRows({call[c].account}, "deleted", call[c].code, 0)
    BY <1>1, <1>3, MovedRows DEF Typed
  <1>5. QED
    BY <1>1, <1>2, <1>4, RevokedRows DEF DeleteCommit, RevokeSessions, Typed

\* The account the index lets in.
OpensAccount(p) ==
    /\ Live(p) = {} /\ AccountRows({}, "active", 0, 1)
    /\ accounts'[Len(accounts) + 1].phone = p /\ accounts'[Len(accounts) + 1].status = "active"
    /\ accounts'[Len(accounts) + 1].closedBy = 0

LEMMA NewAccountRows ==
    ASSUME TypeOK, NEW p \in Phones, IndexAdmits(p), NewAccount(p)
    PROVE  OpensAccount(p)
  <1> DEFINE x == [phone |-> p, status |-> "active", closedBy |-> 0]
  <1>1. x \in Account /\ x.phone = p /\ x.status = "active" /\ x.closedBy = 0
    BY DEF Account
  <1>2. accounts' = Append(accounts, x) /\ Len(accounts) < MaxAccounts
    BY DEF NewAccount
  <1> HIDE DEF x
  <1>3. accounts' \in Seq(Account) /\ Len(accounts') = Len(accounts) + 1
        /\ DOMAIN accounts' = 1..(Len(accounts) + 1)
        /\ accounts'[Len(accounts) + 1] = x /\ \A a \in 1..Len(accounts) : accounts'[a] = accounts[a]
    BY <1>1, <1>2, Added DEF TypeOK
  <1>4. QED
    BY <1>1, <1>2, <1>3, Lengths, AccountsAssumption
       DEF AccountsAssumption, AccountRows, OpensAccount, IndexAdmits

LEMMA ApplyRows ==
    ASSUME Typed, NEW c \in Calls, ApplyCommit(c)
    PROVE  /\ call[c].code \in DOMAIN codes
           /\ CodeRows({call[c].code}, {}, 0) /\ RequestRows(1)
           /\ requests'[Len(requests) + 1].madeBy = call[c].code
  <1> DEFINE x == [phone |-> codes[call[c].code].phone, archived |-> FALSE,
                   madeBy |-> call[c].code, status |-> "received"]
  <1>1. call[c].code \in DOMAIN codes
    BY DEF ApplyCommit, End, Typed, References, UsesCode
  <1>2. CodeRows({call[c].code}, {}, 0)
    BY <1>1, ConsumeRows DEF ApplyCommit, Typed
  <1>3. codes[call[c].code].phone \in Phones /\ call[c].code \in Nat
    BY <1>1, Lengths DEF Typed, Code
  <1>4. x \in Request /\ x.madeBy = call[c].code
    BY <1>3 DEF Request, OpenStatuses
  <1>5. requests' = Append(requests, x) /\ Len(requests) < MaxRequests
    BY DEF ApplyCommit
  <1> HIDE DEF x
  <1>6. requests' \in Seq(Request) /\ Len(requests') = Len(requests) + 1
        /\ DOMAIN requests' = 1..(Len(requests) + 1)
        /\ requests'[Len(requests) + 1] = x /\ \A r \in 1..Len(requests) : requests'[r] = requests[r]
    BY <1>4, <1>5, Added DEF Typed, TypeOK
  <1>7. QED
    BY <1>1, <1>2, <1>4, <1>5, <1>6, Lengths, AccountsAssumption
       DEF AccountsAssumption, RequestRows, Typed

LEMMA OneRequestRows ==
    ASSUME TypeOK, NEW r \in DOMAIN requests, NEW x \in Request, x.madeBy = requests[r].madeBy,
           requests' = [requests EXCEPT ![r] = x]
    PROVE  RequestRows(0)
  <1>1. requests' \in Seq(Request) /\ Len(requests') = Len(requests)
        /\ \A q \in 1..Len(requests) : requests'[q] = IF q = r THEN x ELSE requests[q]
    BY Lengths, ExceptSeq DEF TypeOK
  <1>2. DOMAIN requests' = 1..(Len(requests) + 0)
    BY <1>1, Lengths, LenProperties
  <1>3. QED
    BY <1>1, <1>2, Lengths DEF RequestRows, TypeOK

LEMMA TriageRows ==
    ASSUME TypeOK, NEW r \in DOMAIN requests, Triage(r)
    PROVE  RequestRows(0) /\ UNCHANGED <<codes, accounts, tokens, call>>
  <1>1. requests[r] \in Request
    BY Lengths
  <1>2. ASSUME NEW to \in OpenStatuses \cup {"rejected", "cancelled", "completed"},
               requests' = [requests EXCEPT ![r].status = to]
        PROVE  RequestRows(0)
    <2>1. [requests[r] EXCEPT !.status = to] \in Request
          /\ [requests[r] EXCEPT !.status = to].madeBy = requests[r].madeBy
      BY <1>1 DEF Request
    <2>2. QED
      BY <1>2, <2>1, OneRequestRows
  <1>3. CASE SetArchived(r)
    <2>1. [requests[r] EXCEPT !.archived = ~@] \in Request
          /\ [requests[r] EXCEPT !.archived = ~@].madeBy = requests[r].madeBy
      BY <1>1 DEF Request
    <2>2. requests' = [requests EXCEPT ![r] = [requests[r] EXCEPT !.archived = ~@]]
      BY <1>3 DEF SetArchived
    <2>3. QED
      BY <1>3, <2>1, <2>2, OneRequestRows DEF SetArchived
  <1>4. CASE Claim(r) \/ Reject(r) \/ Cancel(r) \/ Reopen(r)
    BY <1>2, <1>4 DEF Claim, Reject, Cancel, Reopen, Move, OpenStatuses
  <1>5. QED
    BY <1>3, <1>4 DEF Triage

LEMMA LinkRows ==
    ASSUME Typed, NEW c \in Calls, LinkCommit(c)
    PROVE  /\ RequestRows(0)
           /\ \/ \E p \in Phones : OpensAccount(p)
              \/ accounts' = accounts
  <1> DEFINE r == call[c].request
  <1>1. r \in DOMAIN requests /\ requests[r] \in Request
    <2>1. r \in DOMAIN requests
      BY DEF LinkCommit, End, Typed, References
    <2>2. QED
      BY <2>1, Lengths DEF Typed
  <1>2. requests[r].phone \in Phones
    BY <1>1 DEF Request
  <1>3. CASE IndexAdmits(requests[r].phone)
    <2>1. NewAccount(requests[r].phone) /\ requests' = [requests EXCEPT ![r].status = "completed"]
      BY <1>3 DEF LinkCommit
    <2>2. [requests[r] EXCEPT !.status = "completed"] \in Request
          /\ [requests[r] EXCEPT !.status = "completed"].madeBy = requests[r].madeBy
      BY <1>1 DEF Request
    <2>3. RequestRows(0)
      BY <1>1, <2>1, <2>2, OneRequestRows DEF Typed
    <2>4. QED
      BY <1>2, <1>3, <2>1, <2>3, NewAccountRows DEF Typed
  <1>4. CASE ~IndexAdmits(requests[r].phone)
    BY <1>4, RequestsSame DEF LinkCommit, Typed
  <1>5. QED
    BY <1>3, <1>4

LEMMA ActivateRows ==
    ASSUME TypeOK, NEW c \in Calls, ActivateCommit(c)
    PROVE  (\E p \in Phones : OpensAccount(p)) \/ accounts' = accounts
  <1>1. call[c].phone \in Phones
    BY CallFields DEF ActivateCommit, End, TypeOK
  <1>2. QED
    BY <1>1, NewAccountRows DEF ActivateCommit

-----------------------------------------------------------------------------
(* Steps *)

Rows(spent, guessed, n, ended, m, moved, to, by, k, r) ==
    /\ CodeRows(spent, guessed, n) /\ TokenRows(ended, m)
    /\ AccountRows(moved, to, by, k) /\ RequestRows(r)

\* A table nobody touches.
LEMMA SameRows ==
    ASSUME TypeOK
    PROVE  /\ codes' = codes => CodeRows({}, {}, 0)
           /\ tokens' = tokens => TokenRows({}, 0)
           /\ accounts' = accounts => AccountRows({}, "active", 0, 0)
           /\ requests' = requests => RequestRows(0)
  BY CodesSame, TokensSame, AccountsSame, RequestsSame

\* What each step that writes does to the four tables.
LEMMA CallRows ==
    ASSUME Typed, NEW c \in Calls
    PROVE  /\ SendInsert(c) => Rows({}, {}, 1, {}, 0, {}, "active", 0, 0, 0)
           /\ \A match \in BOOLEAN : VerifyWrite(c, match) =>
                Rows({}, IF match THEN {} ELSE {call[c].code}, 0, {}, 0, {}, "active", 0, 0, 0)
           /\ ExchangeCommit(c) => Rows({call[c].code}, {}, 0, {}, 1, {}, "active", 0, 0, 0)
           /\ RotateCommit(c) => Rows({}, {}, 0, {call[c].token}, 1, {}, "active", 0, 0, 0)
           /\ RevokeFamilyEnd(c) => Rows({}, {}, 0, call[c].saw, 0, {}, "active", 0, 0, 0)
           /\ SuspendCommit(c) =>
                Rows({}, {}, 0, call[c].saw, 0, {call[c].account}, "suspended", 0, 0, 0)
           /\ DeleteCommit(c) =>
                Rows({call[c].code}, {}, 0, call[c].saw, 0, {call[c].account}, "deleted",
                     call[c].code, 0, 0)
           /\ ApplyCommit(c) => Rows({call[c].code}, {}, 0, {}, 0, {}, "active", 0, 0, 1)
           /\ ActivateCommit(c) \/ LinkCommit(c) =>
                \/ Rows({}, {}, 0, {}, 0, {}, "active", 0, 0, 0) /\ accounts' = accounts
                \/ /\ Rows({}, {}, 0, {}, 0, {}, "active", 0, 1, 0)
                   /\ \E p \in Phones : OpensAccount(p)
           /\ Abort(c) => Rows({}, {}, 0, {}, 0, {}, "active", 0, 0, 0)
  <1> USE SameRows DEF Rows, Typed
  <1>1. SendInsert(c) => Rows({}, {}, 1, {}, 0, {}, "active", 0, 0, 0)
    BY SendInsertRows DEF SendInsert
  <1>2. ASSUME NEW match \in BOOLEAN, VerifyWrite(c, match)
        PROVE  Rows({}, IF match THEN {} ELSE {call[c].code}, 0, {}, 0, {}, "active", 0, 0, 0)
    BY <1>2, VerifyWriteRows DEF VerifyWrite
  <1>3. ExchangeCommit(c) => Rows({call[c].code}, {}, 0, {}, 1, {}, "active", 0, 0, 0)
    BY ExchangeRows DEF ExchangeCommit
  <1>4. RotateCommit(c) => Rows({}, {}, 0, {call[c].token}, 1, {}, "active", 0, 0, 0)
    BY RotateRows DEF RotateCommit
  <1>5. RevokeFamilyEnd(c) => Rows({}, {}, 0, call[c].saw, 0, {}, "active", 0, 0, 0)
    BY RevokedRows DEF RevokeFamilyEnd
  <1>6. SuspendCommit(c) =>
          Rows({}, {}, 0, call[c].saw, 0, {call[c].account}, "suspended", 0, 0, 0)
    BY SuspendRows DEF SuspendCommit
  <1>7. DeleteCommit(c) =>
          Rows({call[c].code}, {}, 0, call[c].saw, 0, {call[c].account}, "deleted",
               call[c].code, 0, 0)
    BY DeleteRows DEF DeleteCommit
  <1>8. ApplyCommit(c) => Rows({call[c].code}, {}, 0, {}, 0, {}, "active", 0, 0, 1)
    BY ApplyRows DEF ApplyCommit
  <1>9. ActivateCommit(c) \/ LinkCommit(c) =>
          \/ Rows({}, {}, 0, {}, 0, {}, "active", 0, 0, 0) /\ accounts' = accounts
          \/ /\ Rows({}, {}, 0, {}, 0, {}, "active", 0, 1, 0)
             /\ \E p \in Phones : OpensAccount(p)
    <2>1. CASE ActivateCommit(c)
      BY <2>1, ActivateRows DEF ActivateCommit, OpensAccount
    <2>2. CASE LinkCommit(c)
      BY <2>2, LinkRows DEF LinkCommit, OpensAccount
    <2>3. QED
      BY <2>1, <2>2
  <1>10. Abort(c) => Rows({}, {}, 0, {}, 0, {}, "active", 0, 0, 0)
    BY DEF Abort
  <1> HIDE DEF Rows, Typed
  <1>11. QED
    BY <1>1, <1>2, <1>3, <1>4, <1>5, <1>6, <1>7, <1>8, <1>9, <1>10

LEMMA OtherRows ==
    ASSUME Typed
    PROVE  /\ Tick => Rows({}, {}, 0, {}, 0, {}, "active", 0, 0, 0)
           /\ \A a \in DOMAIN accounts : Reactivate(a) =>
                Rows({}, {}, 0, {}, 0, {a}, "active", 0, 0, 0)
           /\ \A r \in DOMAIN requests : Triage(r) =>
                Rows({}, {}, 0, {}, 0, {}, "active", 0, 0, 0)
  <1> USE SameRows DEF Rows, Typed
  <1>1. Tick => Rows({}, {}, 0, {}, 0, {}, "active", 0, 0, 0)
    BY TickRows DEF Tick
  <1>3. \A a \in DOMAIN accounts : Reactivate(a) =>
          Rows({}, {}, 0, {}, 0, {a}, "active", 0, 0, 0)
    BY ReactivateRows DEF Reactivate
  <1>4. \A r \in DOMAIN requests : Triage(r) => Rows({}, {}, 0, {}, 0, {}, "active", 0, 0, 0)
    BY TriageRows
  <1>5. QED
    BY <1>1, <1>3, <1>4

Commit(c) ==
    \/ SendInsert(c) \/ (\E match \in BOOLEAN : VerifyWrite(c, match))
    \/ ExchangeCommit(c) \/ RotateCommit(c) \/ RevokeFamilyEnd(c)
    \/ SuspendCommit(c) \/ DeleteCommit(c) \/ ActivateCommit(c)
    \/ ApplyCommit(c) \/ LinkCommit(c) \/ Abort(c)

LEMMA CommitEnds ==
    ASSUME NEW c \in Calls, Commit(c)
    PROVE  call' = [call EXCEPT ![c] = Idle]
  BY DEF Commit, End, SendInsert, VerifyWrite, ExchangeCommit, RotateCommit, RevokeFamilyEnd,
         SuspendCommit, DeleteCommit, ActivateCommit, ApplyCommit, LinkCommit, Abort

\* What a call in flight can rely on until it writes.
RefersToRows(x) ==
    /\ x.op \in UsesCode => x.code \in DOMAIN codes
    /\ x.op \in UsesAccount => x.account \in DOMAIN accounts
    /\ x.op \in {"rotate", "revoke"} => x.token \in DOMAIN tokens
    /\ x.op \in Revokes => x.saw \subseteq DOMAIN tokens
    /\ x.op = "link" => x.request \in DOMAIN requests

Knows(x) ==
    /\ x.op = "verify" => codes[x.code].attempts < MaxAttempts
    /\ x.op \in {"apply", "exchange", "delete"} => ~codes[x.code].consumed
    /\ x.op = "rotate" => ~tokens[x.token].revoked
    /\ x.op = "suspend" => accounts[x.account].status = "active"
    /\ x.op \in {"suspend", "delete"} => SessionsOf(x.account) \subseteq x.saw

\* Two calls that would hold one lock.
Conflict(x, y) ==
    \/ x.op \in UsesCode /\ y.op \in UsesCode /\ x.code = y.code
    \/ x.op \in {"suspend", "delete"} /\ y.op \in {"suspend", "delete"} /\ x.account = y.account
    \/ x.op = "rotate" /\ y.op = "rotate" /\ x.token = y.token

\* A call begins, with the locks it takes and what it has read.
Begun(c, x) ==
    /\ Begin(c, x) /\ UNCHANGED <<codes, accounts, tokens, requests>>
    /\ RefersToRows(x) /\ Knows(x)
    /\ \A b \in Calls : ~Conflict(x, call[b])
    /\ x.op = "send" => UnderCap(x.phone)

LEMMA Begins ==
    ASSUME Typed, NEW c \in Calls,
           \/ \E p \in Phones, u \in Purposes : SendCheck(c, p, u)
           \/ \E i \in DOMAIN codes : VerifyRead(c, i) \/ ApplyRead(c, i)
           \/ \E i \in DOMAIN codes, a \in DOMAIN accounts :
                 ExchangeRead(c, i, a) \/ DeleteLock(c, i, a)
           \/ \E t \in DOMAIN tokens : RefreshRead(c, t) \/ RevokeFamilyStart(c, t)
           \/ \E a \in DOMAIN accounts : SuspendLock(c, a)
           \/ \E p \in Phones : ActivateRead(c, p)
           \/ \E r \in DOMAIN requests : LinkRead(c, r)
    PROVE  \E x \in Call : Begun(c, x)
  <1>n. /\ DOMAIN codes \subseteq Nat /\ DOMAIN accounts \subseteq Nat
        /\ DOMAIN tokens \subseteq Nat /\ DOMAIN requests \subseteq Nat
    BY Lengths DEF Typed
  <1> USE DEF RefersToRows, Knows, Conflict, UsesCode, UsesAccount, Revokes
  <1>1. ASSUME NEW p \in Phones, NEW u \in Purposes, SendCheck(c, p, u)
        PROVE  \E x \in Call : Begun(c, x)
    <2> DEFINE x == [op |-> "send", phone |-> p, purpose |-> u]
    <2>1. x \in Call /\ RefersToRows(x) /\ Knows(x) /\ \A b \in Calls : ~Conflict(x, call[b])
      BY DEF Call
    <2>2. Begun(c, x)
      BY <1>1, <2>1 DEF SendCheck, Begun
    <2>3. QED
      BY <2>1, <2>2
  <1>2. ASSUME NEW i \in DOMAIN codes, NEW o \in {"verify", "apply"},
               Begin(c, [op |-> o, code |-> i]), UNCHANGED <<codes, accounts, tokens, requests>>,
               ~CodeLocked(i), o = "verify" => codes[i].attempts < MaxAttempts,
               o = "apply" => ~codes[i].consumed
        PROVE  \E x \in Call : Begun(c, x)
    <2> DEFINE x == [op |-> o, code |-> i]
    <2>1. x \in Call /\ RefersToRows(x) /\ Knows(x) /\ \A b \in Calls : ~Conflict(x, call[b])
      BY <1>n, <1>2 DEF Call, CodeLocked
    <2>2. Begun(c, x)
      BY <1>2, <2>1 DEF Begun
    <2>3. QED
      BY <2>1, <2>2
  <1>3. ASSUME NEW i \in DOMAIN codes, NEW a \in DOMAIN accounts, ExchangeRead(c, i, a)
        PROVE  \E x \in Call : Begun(c, x)
    <2> DEFINE x == [op |-> "exchange", code |-> i, account |-> a]
    <2>1. x \in Call /\ RefersToRows(x) /\ Knows(x) /\ \A b \in Calls : ~Conflict(x, call[b])
      BY <1>n, <1>3 DEF Call, ExchangeRead, GoodHandle, CodeLocked
    <2>2. Begun(c, x)
      BY <1>3, <2>1 DEF ExchangeRead, Begun
    <2>3. QED
      BY <2>1, <2>2
  <1>4. ASSUME NEW i \in DOMAIN codes, NEW a \in DOMAIN accounts, DeleteLock(c, i, a)
        PROVE  \E x \in Call : Begun(c, x)
    <2> DEFINE x == [op |-> "delete", code |-> i, account |-> a, saw |-> SessionsOf(a)]
    <2>0. SessionsOf(a) \in SUBSET Nat /\ SessionsOf(a) \subseteq DOMAIN tokens
      BY <1>n DEF SessionsOf, LiveTokens
    <2>1. x \in Call /\ RefersToRows(x) /\ Knows(x) /\ \A b \in Calls : ~Conflict(x, call[b])
      BY <1>n, <1>4, <2>0 DEF Call, DeleteLock, GoodHandle, CodeLocked, AccountLocked
    <2>2. Begun(c, x)
      BY <1>4, <2>1 DEF DeleteLock, Begun
    <2>3. QED
      BY <2>1, <2>2
  <1>5. ASSUME NEW t \in DOMAIN tokens, RefreshRead(c, t)
        PROVE  \E x \in Call : Begun(c, x)
    <2> DEFINE x == [op |-> "rotate", token |-> t]
    <2>1. x \in Call /\ RefersToRows(x) /\ Knows(x) /\ \A b \in Calls : ~Conflict(x, call[b])
      BY <1>n, <1>5 DEF Call, RefreshRead, TokenLocked
    <2>2. Begun(c, x)
      BY <1>5, <2>1 DEF RefreshRead, Begun
    <2>3. QED
      BY <2>1, <2>2
  <1>6. ASSUME NEW t \in DOMAIN tokens, RevokeFamilyStart(c, t)
        PROVE  \E x \in Call : Begun(c, x)
    <2> DEFINE x == [op |-> "revoke", token |-> t, saw |-> Family(t) \cap LiveTokens]
    <2>0. Family(t) \cap LiveTokens \in SUBSET Nat /\ Family(t) \cap LiveTokens \subseteq DOMAIN tokens
      BY <1>n DEF LiveTokens
    <2>1. x \in Call /\ RefersToRows(x) /\ Knows(x) /\ \A b \in Calls : ~Conflict(x, call[b])
      BY <1>n, <2>0 DEF Call
    <2>2. Begun(c, x)
      BY <1>6, <2>1 DEF RevokeFamilyStart, Begun
    <2>3. QED
      BY <2>1, <2>2
  <1>7. ASSUME NEW a \in DOMAIN accounts, SuspendLock(c, a)
        PROVE  \E x \in Call : Begun(c, x)
    <2> DEFINE x == [op |-> "suspend", account |-> a, saw |-> SessionsOf(a)]
    <2>0. SessionsOf(a) \in SUBSET Nat /\ SessionsOf(a) \subseteq DOMAIN tokens
      BY <1>n DEF SessionsOf, LiveTokens
    <2>1. x \in Call /\ RefersToRows(x) /\ Knows(x) /\ \A b \in Calls : ~Conflict(x, call[b])
      BY <1>n, <1>7, <2>0 DEF Call, SuspendLock, AccountLocked
    <2>2. Begun(c, x)
      BY <1>7, <2>1 DEF SuspendLock, Begun
    <2>3. QED
      BY <2>1, <2>2
  <1>8. ASSUME NEW p \in Phones, ActivateRead(c, p)
        PROVE  \E x \in Call : Begun(c, x)
    <2> DEFINE x == [op |-> "activate", phone |-> p]
    <2>1. x \in Call /\ RefersToRows(x) /\ Knows(x) /\ \A b \in Calls : ~Conflict(x, call[b])
      BY DEF Call
    <2>2. Begun(c, x)
      BY <1>8, <2>1 DEF ActivateRead, Begun
    <2>3. QED
      BY <2>1, <2>2
  <1>9. ASSUME NEW r \in DOMAIN requests, LinkRead(c, r)
        PROVE  \E x \in Call : Begun(c, x)
    <2> DEFINE x == [op |-> "link", request |-> r]
    <2>1. x \in Call /\ RefersToRows(x) /\ Knows(x) /\ \A b \in Calls : ~Conflict(x, call[b])
      BY <1>n DEF Call
    <2>2. Begun(c, x)
      BY <1>9, <2>1 DEF LinkRead, Begun
    <2>3. QED
      BY <2>1, <2>2
  <1>10. ASSUME NEW i \in DOMAIN codes, VerifyRead(c, i) PROVE \E x \in Call : Begun(c, x)
    BY <1>2, <1>10 DEF VerifyRead
  <1>11. ASSUME NEW i \in DOMAIN codes, ApplyRead(c, i) PROVE \E x \in Call : Begun(c, x)
    BY <1>2, <1>11 DEF ApplyRead, GoodHandle
  <1>12. QED
    BY <1>1, <1>3, <1>4, <1>5, <1>6, <1>7, <1>8, <1>9, <1>10, <1>11

LEMMA IdleKnows == Idle \in Call /\ RefersToRows(Idle) /\ Knows(Idle)
  BY DEF Idle, Call, RefersToRows, Knows, UsesCode, UsesAccount, Revokes

\* Rows stay; a new token references an account that exists.
Grown ==
    /\ codes' \in Seq(Code) /\ Len(codes') <= MaxCodes
    /\ accounts' \in Seq(Account) /\ Len(accounts') <= MaxAccounts
    /\ tokens' \in Seq(Token) /\ Len(tokens') <= MaxTokens
    /\ requests' \in Seq(Request) /\ Len(requests') <= MaxRequests
    /\ DOMAIN codes \subseteq DOMAIN codes' /\ DOMAIN accounts \subseteq DOMAIN accounts'
    /\ DOMAIN tokens \subseteq DOMAIN tokens' /\ DOMAIN requests \subseteq DOMAIN requests'
    /\ \A t \in DOMAIN tokens' : tokens'[t].account \in DOMAIN accounts'

LEMMA CodesGrow ==
    ASSUME TypeOK, NEW spent, NEW guessed, NEW n \in {0, 1}, CodeRows(spent, guessed, n)
    PROVE  /\ codes' \in Seq(Code) /\ Len(codes') <= MaxCodes
           /\ DOMAIN codes \subseteq DOMAIN codes'
  BY Lengths DEF CodeRows

LEMMA AccountsGrow ==
    ASSUME TypeOK, NEW moved, NEW to, NEW by, NEW n \in {0, 1}, AccountRows(moved, to, by, n)
    PROVE  /\ accounts' \in Seq(Account) /\ Len(accounts') <= MaxAccounts
           /\ DOMAIN accounts \subseteq DOMAIN accounts'
  BY Lengths DEF AccountRows

LEMMA RequestsGrow ==
    ASSUME TypeOK, NEW n \in {0, 1}, RequestRows(n)
    PROVE  /\ requests' \in Seq(Request) /\ Len(requests') <= MaxRequests
           /\ DOMAIN requests \subseteq DOMAIN requests'
  BY Lengths DEF RequestRows

LEMMA TokensGrow ==
    ASSUME Typed, NEW ended, NEW n \in {0, 1}, TokenRows(ended, n),
           n = 1 => tokens'[Len(tokens) + 1].account \in DOMAIN accounts
    PROVE  /\ tokens' \in Seq(Token) /\ Len(tokens') <= MaxTokens
           /\ DOMAIN tokens \subseteq DOMAIN tokens'
           /\ \A t \in DOMAIN tokens' : tokens'[t].account \in DOMAIN accounts
  <1>1. \A t \in DOMAIN tokens' : t \in DOMAIN tokens \/ (n = 1 /\ t = Len(tokens) + 1)
    BY Lengths DEF Typed, TokenRows
  <1>2. \A t \in DOMAIN tokens : tokens'[t].account \in DOMAIN accounts
    BY DEF Typed, References, TokenRows
  <1>3. QED
    BY <1>1, <1>2, Lengths DEF Typed, TokenRows

LEMMA RowsGrow ==
    ASSUME Typed, NEW spent, NEW guessed, NEW n \in {0, 1}, NEW ended, NEW m \in {0, 1},
           NEW moved, NEW to, NEW by, NEW k \in {0, 1}, NEW r \in {0, 1},
           Rows(spent, guessed, n, ended, m, moved, to, by, k, r),
           m = 1 => tokens'[Len(tokens) + 1].account \in DOMAIN accounts
    PROVE  Grown
  <1>1. /\ CodeRows(spent, guessed, n) /\ TokenRows(ended, m)
        /\ AccountRows(moved, to, by, k) /\ RequestRows(r)
    BY DEF Rows
  <1>2. /\ codes' \in Seq(Code) /\ Len(codes') <= MaxCodes
        /\ DOMAIN codes \subseteq DOMAIN codes'
    BY <1>1, CodesGrow DEF Typed
  <1>3. /\ accounts' \in Seq(Account) /\ Len(accounts') <= MaxAccounts
        /\ DOMAIN accounts \subseteq DOMAIN accounts'
    BY <1>1, AccountsGrow DEF Typed
  <1>4. /\ requests' \in Seq(Request) /\ Len(requests') <= MaxRequests
        /\ DOMAIN requests \subseteq DOMAIN requests'
    BY <1>1, RequestsGrow DEF Typed
  <1>5. /\ tokens' \in Seq(Token) /\ Len(tokens') <= MaxTokens
        /\ DOMAIN tokens \subseteq DOMAIN tokens'
        /\ \A t \in DOMAIN tokens' : tokens'[t].account \in DOMAIN accounts
    BY <1>1, TokensGrow
  <1>6. QED
    BY <1>2, <1>3, <1>4, <1>5 DEF Grown

\* What each step does to the calls.
Recalled ==
    /\ call' \in [Calls -> Call]
    /\ \A b \in Calls : RefersToRows(call'[b])

LEMMA Recalls ==
    ASSUME Typed
    PROVE  /\ call' = call => Recalled
           /\ \A c \in Calls, x \in Call :
                RefersToRows(x) /\ call' = [call EXCEPT ![c] = x] => Recalled
  <1>1. \A b \in Calls : RefersToRows(call[b])
    BY DEF Typed, References, RefersToRows
  <1>2. call' = call => Recalled
    BY <1>1 DEF Recalled, Typed, TypeOK
  <1>3. ASSUME NEW c \in Calls, NEW x \in Call, RefersToRows(x), call' = [call EXCEPT ![c] = x]
        PROVE  Recalled
    <2>1. call' \in [Calls -> Call]
      BY <1>3, CallType DEF Typed
    <2>2. \A b \in Calls : call'[b] = call[b] \/ call'[b] = x
      BY <1>3 DEF Typed, TypeOK
    <2>3. QED
      BY <1>1, <1>3, <2>1, <2>2 DEF Recalled
  <1>4. QED
    BY <1>2, <1>3

LEMMA GrownTyped == Grown /\ Recalled => Typed'
  <1> SUFFICES ASSUME Grown, Recalled PROVE Typed'
    OBVIOUS
  <1>1. TypeOK'
    BY DEF TypeOK, Grown, Recalled
  <1>2. References'
    BY DEF References, RefersToRows, Grown, Recalled
  <1>3. QED
    BY <1>1, <1>2 DEF Typed

None == Rows({}, {}, 0, {}, 0, {}, "active", 0, 0, 0)

LEMMA NoneGrows == Typed /\ None => Grown
  BY RowsGrow, 0 # 1 DEF None

LEMMA CommitGrows ==
    ASSUME Typed, NEW c \in Calls, Commit(c)
    PROVE  Grown
  <1>1. CASE SendInsert(c)
    <2>1. Rows({}, {}, 1, {}, 0, {}, "active", 0, 0, 0)
      BY <1>1, CallRows
    <2>2. QED
      BY <2>1, RowsGrow, 0 # 1
  <1>2. ASSUME NEW match \in BOOLEAN, VerifyWrite(c, match) PROVE Grown
    <2> DEFINE guessed == IF match THEN {} ELSE {call[c].code}
    <2>1. Rows({}, guessed, 0, {}, 0, {}, "active", 0, 0, 0)
      BY <1>2, CallRows
    <2> HIDE DEF guessed
    <2>2. QED
      BY <2>1, RowsGrow, 0 # 1
  <1>3. CASE ExchangeCommit(c)
    <2>1. call[c].account \in DOMAIN accounts
      BY <1>3 DEF ExchangeCommit, End, Typed, References, UsesAccount
    <2>2. tokens'[Len(tokens) + 1].account \in DOMAIN accounts
      BY <1>3, <2>1, ExchangeRows
    <2>3. Rows({call[c].code}, {}, 0, {}, 1, {}, "active", 0, 0, 0)
      BY <1>3, CallRows
    <2>4. QED
      BY <2>2, <2>3, RowsGrow
  <1>4. CASE RotateCommit(c)
    <2>1. tokens'[Len(tokens) + 1].account \in DOMAIN accounts
      BY <1>4, RotateRows DEF Typed, References
    <2>2. Rows({}, {}, 0, {call[c].token}, 1, {}, "active", 0, 0, 0)
      BY <1>4, CallRows
    <2>3. QED
      BY <2>1, <2>2, RowsGrow
  <1>5. CASE RevokeFamilyEnd(c)
    <2>1. Rows({}, {}, 0, call[c].saw, 0, {}, "active", 0, 0, 0)
      BY <1>5, CallRows
    <2>2. QED
      BY <2>1, RowsGrow, 0 # 1
  <1>6. CASE SuspendCommit(c)
    <2>1. Rows({}, {}, 0, call[c].saw, 0, {call[c].account}, "suspended", 0, 0, 0)
      BY <1>6, CallRows
    <2>2. QED
      BY <2>1, RowsGrow, 0 # 1
  <1>7. CASE DeleteCommit(c)
    <2>1. Rows({call[c].code}, {}, 0, call[c].saw, 0, {call[c].account}, "deleted",
               call[c].code, 0, 0)
      BY <1>7, CallRows
    <2>2. QED
      BY <2>1, RowsGrow, 0 # 1
  <1>8. CASE ActivateCommit(c) \/ LinkCommit(c)
    <2>1. None \/ Rows({}, {}, 0, {}, 0, {}, "active", 0, 1, 0)
      BY <1>8, CallRows DEF None
    <2>2. ASSUME Rows({}, {}, 0, {}, 0, {}, "active", 0, 1, 0) PROVE Grown
      BY <2>2, RowsGrow, 0 # 1
    <2>3. QED
      BY <2>1, <2>2, NoneGrows
  <1>9. CASE ApplyCommit(c)
    <2>1. Rows({call[c].code}, {}, 0, {}, 0, {}, "active", 0, 0, 1)
      BY <1>9, CallRows
    <2>2. QED
      BY <2>1, RowsGrow, 0 # 1
  <1>10. CASE Abort(c)
    BY <1>10, CallRows, NoneGrows DEF None
  <1>11. QED
    BY <1>1, <1>2, <1>3, <1>4, <1>5, <1>6, <1>7, <1>8, <1>9, <1>10 DEF Commit

\* The steps that are one statement, and leave the calls alone.
Statement ==
    \/ \E a \in DOMAIN accounts : Reactivate(a)
    \/ \E r \in DOMAIN requests : Triage(r)
    \/ Tick

LEMMA StatementGrows ==
    ASSUME Typed, Statement
    PROVE  Grown /\ call' = call
  <1>1. call' = call
    BY TriageRows DEF Statement, Typed, Reactivate, Tick
  <1>3. ASSUME NEW a \in DOMAIN accounts, Reactivate(a) PROVE Grown
    <2>1. Rows({}, {}, 0, {}, 0, {a}, "active", 0, 0, 0)
      BY <1>3, OtherRows
    <2>2. QED
      BY <2>1, RowsGrow, 0 # 1
  <1>4. ASSUME Tick \/ \E r \in DOMAIN requests : Triage(r) PROVE Grown
    BY <1>4, OtherRows, NoneGrows DEF None
  <1>5. QED
    BY <1>1, <1>3, <1>4 DEF Statement

LEMMA Steps ==
    ASSUME Typed, Next
    PROVE  \/ \E c \in Calls, x \in Call : Begun(c, x)
           \/ \E c \in Calls : Commit(c)
           \/ Statement
  BY Begins DEF Next, CodeStep, SessionStep, AccountStep, RequestStep, Commit, Statement

LEMMA TypedNext == Typed /\ [Next]_vars => Typed'
  <1> SUFFICES ASSUME Typed, Next PROVE Typed'
    BY DEF vars, Typed, TypeOK, References
  <1>1. ASSUME NEW c \in Calls, NEW x \in Call, Begun(c, x)
        PROVE  Typed'
    <2>1. None
      BY <1>1, SameRows DEF Begun, Typed, Rows, None
    <2>2. call' = [call EXCEPT ![c] = x] /\ RefersToRows(x)
      BY <1>1 DEF Begun, Begin
    <2>3. Recalled
      BY <2>2, Recalls
    <2>4. QED
      BY <2>1, <2>3, NoneGrows, GrownTyped
  <1>2. ASSUME NEW c \in Calls, Commit(c)
        PROVE  Typed'
    <2>1. Recalled
      BY <1>2, CommitEnds, IdleKnows, Recalls
    <2>2. QED
      BY <1>2, <2>1, CommitGrows, GrownTyped
  <1>3. CASE Statement
    BY <1>3, StatementGrows, Recalls, GrownTyped
  <1>4. QED
    BY <1>1, <1>2, <1>3, Steps

LEMMA TypedInit == Init => Typed
  <1> SUFFICES ASSUME Init PROVE Typed
    OBVIOUS
  <1>1. /\ <<>> \in Seq(Code) /\ <<>> \in Seq(Account) /\ <<>> \in Seq(Token)
        /\ <<>> \in Seq(Request) /\ Len(<<>>) = 0
    BY EmptySeq
  <1>2. TypeOK
    BY <1>1, IdleKnows, AccountsAssumption DEF AccountsAssumption, Init, TypeOK
  <1>3. \A c \in Calls : call[c].op = "idle"
    BY DEF Init, Idle
  <1>4. DOMAIN tokens = {}
    BY DEF Init
  <1>5. References
    BY <1>3, <1>4 DEF References, UsesCode, UsesAccount, Revokes
  <1>6. QED
    BY <1>2, <1>5 DEF Typed

\* Every table and every call keeps its type.
THEOREM TypeCorrect == Spec => []TypeOK
  <1>1. Typed => TypeOK
    BY DEF Typed
  <1>2. QED
    BY <1>1, TypedInit, TypedNext, PTL DEF Spec

-----------------------------------------------------------------------------
(* Locks.  What a call has locked belongs to it alone, and what it has read   *)
(* under the lock stays true until it writes.                                *)

Exclusive == \A b, c \in Calls : b # c => ~Conflict(call[b], call[c])

AllKnow == \A c \in Calls : Knows(call[c])

Held == Exclusive /\ AllKnow

CodesKept ==
    \A b \in Calls : call[b].op \in UsesCode /\ call'[b] = call[b] =>
        /\ codes'[call[b].code].attempts = codes[call[b].code].attempts
        /\ codes'[call[b].code].consumed <=> codes[call[b].code].consumed

TokensKept ==
    \A b \in Calls : call[b].op = "rotate" /\ call'[b] = call[b] =>
        (tokens'[call[b].token].revoked <=> tokens[call[b].token].revoked)

AccountsKept ==
    \A b \in Calls : call[b].op = "suspend" /\ call'[b] = call[b] =>
        accounts'[call[b].account].status = accounts[call[b].account].status

SessionsKept ==
    \A a \in DOMAIN accounts : AccountLocked(a) => SessionsOf(a)' \subseteq SessionsOf(a)

Kept == CodesKept /\ TokensKept /\ AccountsKept /\ SessionsKept

LEMMA CodesStay ==
    ASSUME Typed, NEW spent, NEW guessed, NEW n, CodeRows(spent, guessed, n),
           \A b \in Calls : call[b].op \in UsesCode /\ call'[b] = call[b] =>
               call[b].code \notin spent /\ call[b].code \notin guessed
    PROVE  CodesKept
  BY DEF CodesKept, CodeRows, Typed, References

LEMMA TokensStay ==
    ASSUME Typed, NEW ended, NEW n, TokenRows(ended, n),
           \A b \in Calls : call[b].op = "rotate" /\ call'[b] = call[b] =>
               call[b].token \notin ended
    PROVE  TokensKept
  BY DEF TokensKept, TokenRows, Typed, References

LEMMA AccountsStay ==
    ASSUME Typed, NEW moved, NEW to, NEW by, NEW n, AccountRows(moved, to, by, n),
           \A b \in Calls : call[b].op = "suspend" /\ call'[b] = call[b] =>
               call[b].account \notin moved
    PROVE  AccountsKept
  BY DEF AccountsKept, AccountRows, Typed, References, UsesAccount

LEMMA SessionsStay ==
    ASSUME Typed, NEW ended, NEW n \in {0, 1}, TokenRows(ended, n),
           n = 1 => ~AccountLocked(tokens'[Len(tokens) + 1].account)
    PROVE  SessionsKept
  <1> SUFFICES ASSUME NEW a \in DOMAIN accounts, AccountLocked(a), NEW t \in SessionsOf(a)'
               PROVE  t \in SessionsOf(a)
    BY DEF SessionsKept
  <1>1. t \in DOMAIN tokens' /\ ~tokens'[t].revoked /\ tokens'[t].account = a
    BY DEF SessionsOf, LiveTokens
  <1>2. t \in DOMAIN tokens
    BY <1>1, Lengths DEF Typed, TokenRows
  <1>3. QED
    BY <1>1, <1>2 DEF TokenRows, SessionsOf, LiveTokens

LEMMA NoneKeeps ==
    ASSUME Typed, None
    PROVE  Kept
  <1>1. /\ CodeRows({}, {}, 0) /\ TokenRows({}, 0)
        /\ AccountRows({}, "active", 0, 0)
    BY DEF None, Rows
  <1>2. CodesKept
    BY <1>1, CodesStay
  <1>3. TokensKept
    BY <1>1, TokensStay
  <1>4. AccountsKept
    BY <1>1, AccountsStay
  <1>5. SessionsKept
    BY <1>1, SessionsStay
  <1>6. QED
    BY <1>2, <1>3, <1>4, <1>5 DEF Kept

\* A commit leaves the call idle: a call that is still busy is another one.
LEMMA CommitOthers ==
    ASSUME Typed, NEW c \in Calls, Commit(c)
    PROVE  /\ call' = [call EXCEPT ![c] = Idle]
           /\ call'[c] = Idle
           /\ \A b \in Calls : b = c \/ call'[b] = call[b]
           /\ \A b \in Calls : call[b].op # "idle" /\ call'[b] = call[b] => b # c
  <1>1. call' = [call EXCEPT ![c] = Idle]
    BY CommitEnds
  <1>2. call'[c] = Idle /\ \A b \in Calls : b = c \/ call'[b] = call[b]
    BY <1>1 DEF Typed, TypeOK
  <1>3. QED
    BY <1>1, <1>2 DEF Idle

LEMMA CommitKeeps ==
    ASSUME Typed, Held, NEW c \in Calls, Commit(c)
    PROVE  Kept
  <1>1. \A b \in Calls : call[b].op # "idle" /\ call'[b] = call[b] => b # c
    BY CommitOthers
  <1>2. \A b \in Calls : call[b].op \in UsesCode /\ call[c].op \in UsesCode /\ b # c =>
          call[b].code # call[c].code
    BY DEF Held, Exclusive, Conflict
  <1>3. \A b \in Calls : call[b].op = "rotate" /\ call[c].op = "rotate" /\ b # c =>
          call[b].token # call[c].token
    BY DEF Held, Exclusive, Conflict
  <1>4. \A b \in Calls : call[b].op = "suspend" /\ call[c].op \in {"suspend", "delete"} /\ b # c =>
          call[b].account # call[c].account
    BY DEF Held, Exclusive, Conflict
  <1>5. /\ CodeRows({}, {}, 0) \/ CodeRows({}, {}, 1) => CodesKept
        /\ call[c].op \in UsesCode =>
             /\ CodeRows({call[c].code}, {}, 0) => CodesKept
             /\ CodeRows({}, {call[c].code}, 0) => CodesKept
    <2>1. ASSUME call[c].op \in UsesCode
          PROVE  \A b \in Calls : call[b].op \in UsesCode /\ call'[b] = call[b] =>
                   call[b].code \notin {call[c].code}
      BY <1>1, <1>2, <2>1 DEF UsesCode
    <2>2. CodeRows({}, {}, 0) \/ CodeRows({}, {}, 1) => CodesKept
      BY CodesStay
    <2>3. QED
      BY <2>1, <2>2, CodesStay
  <1>6. TokenRows({}, 0) \/ TokenRows({}, 1) => TokensKept
    BY TokensStay
  <1>7. TokenRows({}, 0) => SessionsKept
    BY SessionsStay, 0 # 1
  <1>8. /\ AccountRows({}, "active", 0, 0) \/ AccountRows({}, "active", 0, 1) => AccountsKept
        /\ \A to, by : call[c].op \in {"suspend", "delete"}
             /\ AccountRows({call[c].account}, to, by, 0) => AccountsKept
    <2>1. ASSUME call[c].op \in {"suspend", "delete"}
          PROVE  \A b \in Calls : call[b].op = "suspend" /\ call'[b] = call[b] =>
                   call[b].account \notin {call[c].account}
      BY <1>1, <1>4, <2>1
    <2>2. AccountRows({}, "active", 0, 0) \/ AccountRows({}, "active", 0, 1) => AccountsKept
      BY AccountsStay
    <2>3. QED
      BY <2>1, <2>2, AccountsStay
  <1>9. ASSUME \A t \in call[c].saw : ~TokenLocked(t), TokenRows(call[c].saw, 0)
        PROVE  TokensKept /\ SessionsKept
    <2>1. \A b \in Calls : call[b].op = "rotate" => call[b].token \notin call[c].saw
      BY <1>9 DEF TokenLocked
    <2>2. TokensKept
      BY <1>9, <2>1, TokensStay
    <2>3. QED
      BY <1>9, <2>2, SessionsStay, 0 # 1
  <1>10. CASE SendInsert(c)
    <2>1. Rows({}, {}, 1, {}, 0, {}, "active", 0, 0, 0)
      BY <1>10, CallRows
    <2>2. QED
      BY <2>1, <1>5, <1>6, <1>7, <1>8 DEF Rows, Kept
  <1>11. ASSUME NEW match \in BOOLEAN, VerifyWrite(c, match) PROVE Kept
    <2>1. Rows({}, IF match THEN {} ELSE {call[c].code}, 0, {}, 0, {}, "active", 0, 0, 0)
      BY <1>11, CallRows
    <2>2. CodeRows({}, {}, 0) \/ CodeRows({}, {call[c].code}, 0)
      BY <2>1 DEF Rows
    <2>3. call[c].op \in UsesCode
      BY <1>11 DEF VerifyWrite, End, UsesCode
    <2>4. QED
      BY <2>1, <2>2, <2>3, <1>5, <1>6, <1>7, <1>8 DEF Rows, Kept
  <1>12. CASE ExchangeCommit(c)
    <2>1. Rows({call[c].code}, {}, 0, {}, 1, {}, "active", 0, 0, 0)
      BY <1>12, CallRows
    <2>2. call[c].op \in UsesCode /\ ~AccountLocked(call[c].account)
      BY <1>12 DEF ExchangeCommit, End, UsesCode
    <2>3. ~AccountLocked(tokens'[Len(tokens) + 1].account)
      BY <1>12, <2>2, ExchangeRows
    <2>4. SessionsKept
      BY <2>1, <2>3, SessionsStay DEF Rows
    <2>5. QED
      BY <2>1, <2>2, <2>4, <1>5, <1>6, <1>8 DEF Rows, Kept
  <1>13. CASE RotateCommit(c)
    <2>1. Rows({}, {}, 0, {call[c].token}, 1, {}, "active", 0, 0, 0)
      BY <1>13, CallRows
    <2>2. call[c].op = "rotate" /\ ~AccountLocked(tokens[call[c].token].account)
      BY <1>13 DEF RotateCommit, End
    <2>3. ~AccountLocked(tokens'[Len(tokens) + 1].account)
      BY <1>13, <2>2, RotateRows
    <2>4. SessionsKept
      BY <2>1, <2>3, SessionsStay DEF Rows
    <2>5. \A b \in Calls : call[b].op = "rotate" /\ call'[b] = call[b] =>
            call[b].token \notin {call[c].token}
      BY <1>1, <1>3, <2>2
    <2>6. TokensKept
      BY <2>1, <2>5, TokensStay DEF Rows
    <2>7. QED
      BY <2>1, <2>4, <2>6, <1>5, <1>8 DEF Rows, Kept
  <1>14. CASE RevokeFamilyEnd(c)
    <2>1. Rows({}, {}, 0, call[c].saw, 0, {}, "active", 0, 0, 0)
      BY <1>14, CallRows
    <2>2. \A t \in call[c].saw : ~TokenLocked(t)
      BY <1>14 DEF RevokeFamilyEnd
    <2>3. QED
      BY <2>1, <2>2, <1>5, <1>8, <1>9 DEF Rows, Kept
  <1>15. CASE SuspendCommit(c)
    <2>1. Rows({}, {}, 0, call[c].saw, 0, {call[c].account}, "suspended", 0, 0, 0)
      BY <1>15, CallRows
    <2>2. call[c].op \in {"suspend", "delete"} /\ \A t \in call[c].saw : ~TokenLocked(t)
      BY <1>15 DEF SuspendCommit, RevokeSessions, End
    <2>3. QED
      BY <2>1, <2>2, <1>5, <1>8, <1>9 DEF Rows, Kept
  <1>16. CASE DeleteCommit(c)
    <2>1. Rows({call[c].code}, {}, 0, call[c].saw, 0, {call[c].account}, "deleted",
               call[c].code, 0, 0)
      BY <1>16, CallRows
    <2>2. /\ call[c].op \in {"suspend", "delete"} /\ call[c].op \in UsesCode
          /\ \A t \in call[c].saw : ~TokenLocked(t)
      BY <1>16 DEF DeleteCommit, RevokeSessions, End, UsesCode
    <2>3. QED
      BY <2>1, <2>2, <1>5, <1>8, <1>9 DEF Rows, Kept
  <1>17. CASE ActivateCommit(c) \/ LinkCommit(c)
    <2>1. Rows({}, {}, 0, {}, 0, {}, "active", 0, 0, 0) \/ Rows({}, {}, 0, {}, 0, {}, "active", 0, 1, 0)
      BY <1>17, CallRows
    <2>2. QED
      BY <2>1, <1>5, <1>6, <1>7, <1>8 DEF Rows, Kept
  <1>18. CASE ApplyCommit(c)
    <2>1. Rows({call[c].code}, {}, 0, {}, 0, {}, "active", 0, 0, 1)
      BY <1>18, CallRows
    <2>2. call[c].op \in UsesCode
      BY <1>18 DEF ApplyCommit, End, UsesCode
    <2>3. QED
      BY <2>1, <2>2, <1>5, <1>6, <1>7, <1>8 DEF Rows, Kept
  <1>19. CASE Abort(c)
    BY <1>19, CallRows, NoneKeeps DEF None
  <1>20. QED
    BY <1>10, <1>11, <1>12, <1>13, <1>14, <1>15, <1>16, <1>17, <1>18, <1>19 DEF Commit

LEMMA StatementKeeps ==
    ASSUME Typed, Statement
    PROVE  Kept
  <1>1. call' = call
    BY StatementGrows
  <1>2. TokenRows({}, 0) => TokensKept /\ SessionsKept
    BY TokensStay, SessionsStay, 0 # 1
  <1>3. AccountRows({}, "active", 0, 0) => AccountsKept
    BY AccountsStay
  <1>5. ASSUME NEW a \in DOMAIN accounts, Reactivate(a) PROVE Kept
    <2>1. Rows({}, {}, 0, {}, 0, {a}, "active", 0, 0, 0)
      BY <1>5, OtherRows
    <2>2. \A b \in Calls : call[b].op = "suspend" => call[b].account \notin {a}
      BY <1>5 DEF Reactivate, AccountLocked
    <2>3. AccountsKept
      BY <2>1, <2>2, AccountsStay DEF Rows
    <2>4. CodesKept
      BY <2>1, CodesStay DEF Rows
    <2>5. QED
      BY <2>1, <2>3, <2>4, <1>2 DEF Rows, Kept
  <1>6. ASSUME Tick \/ \E r \in DOMAIN requests : Triage(r) PROVE Kept
    BY <1>6, OtherRows, NoneKeeps DEF None
  <1>7. QED
    BY <1>5, <1>6 DEF Statement

\* A call that stays where it is still knows what it knew.
LEMMA KeptKnows ==
    ASSUME Typed, AllKnow, Kept, NEW b \in Calls, call'[b] = call[b]
    PROVE  Knows(call[b])'
  <1>1. Knows(call[b])
    BY DEF AllKnow
  <1>2. /\ call[b].op \in UsesAccount => call[b].account \in DOMAIN accounts
    BY DEF Typed, References
  <1>3. call'[b].op = "verify" => codes'[call'[b].code].attempts < MaxAttempts
    BY <1>1 DEF Knows, Kept, CodesKept, UsesCode
  <1>4. call'[b].op \in {"apply", "exchange", "delete"} => ~codes'[call'[b].code].consumed
    BY <1>1 DEF Knows, Kept, CodesKept, UsesCode
  <1>5. call'[b].op = "rotate" => ~tokens'[call'[b].token].revoked
    BY <1>1 DEF Knows, Kept, TokensKept
  <1>6. call'[b].op = "suspend" => accounts'[call'[b].account].status = "active"
    BY <1>1 DEF Knows, Kept, AccountsKept
  <1>7. ASSUME call[b].op \in {"suspend", "delete"}
        PROVE  {t \in DOMAIN tokens' : ~tokens'[t].revoked /\ tokens'[t].account = call'[b].account}
                 \subseteq call'[b].saw
    <2>1. PICK a \in DOMAIN accounts : a = call[b].account
      BY <1>2, <1>7 DEF UsesAccount
    <2>2. AccountLocked(a)
      BY <1>7, <2>1 DEF AccountLocked
    <2>3. SessionsOf(a)' \subseteq SessionsOf(a)
      BY <2>2 DEF Kept, SessionsKept
    <2>4. SessionsOf(a) \subseteq call[b].saw
      BY <1>1, <1>7, <2>1 DEF Knows
    <2>5. {t \in DOMAIN tokens' : ~tokens'[t].revoked /\ tokens'[t].account = a} \subseteq call[b].saw
      BY <2>3, <2>4 DEF SessionsOf, LiveTokens
    <2>6. QED
      BY <2>1, <2>5
  <1>8. QED
    BY <1>3, <1>4, <1>5, <1>6, <1>7 DEF Knows, SessionsOf, LiveTokens

LEMMA IdleKnowsNext ==
    ASSUME NEW b \in Calls, call'[b] = Idle
    PROVE  Knows(call[b])'
  <1>1. call'[b].op = "idle"
    BY DEF Idle
  <1>2. QED
    BY <1>1 DEF Knows

LEMMA IdleConflicts ==
    ASSUME NEW y
    PROVE  ~Conflict(Idle, y) /\ ~Conflict(y, Idle)
  BY DEF Conflict, Idle, UsesCode

LEMMA HeldNext == Typed /\ Held /\ [Next]_vars => Held'
  <1> SUFFICES ASSUME Typed, Held, [Next]_vars PROVE Held'
    OBVIOUS
  <1>1. ASSUME NEW c \in Calls, NEW x \in Call, Begun(c, x)
        PROVE  Held'
    <2>1. Kept
      BY <1>1, SameRows, NoneKeeps DEF Begun, Typed, Rows, None
    <2>2. call'[c] = x /\ \A b \in Calls : b = c \/ call'[b] = call[b]
      BY <1>1 DEF Begun, Begin, Typed, TypeOK
    <2>3. \A b, d \in Calls : b # d => ~Conflict(call'[b], call'[d])
      <3>1. \A b \in Calls : ~Conflict(x, call[b]) /\ ~Conflict(call[b], x)
        BY <1>1 DEF Begun, Conflict
      <3>2. QED
        BY <2>2, <3>1 DEF Held, Exclusive
    <2>4. Exclusive'
      BY <2>3 DEF Exclusive, Conflict
    <2>5. Knows(call[c])'
      <3>1. Knows(x) /\ UNCHANGED <<codes, accounts, tokens>>
        BY <1>1 DEF Begun
      <3>2. QED
        BY <2>2, <3>1 DEF Knows, SessionsOf, LiveTokens
    <2>6. \A b \in Calls : Knows(call[b])'
      BY <2>1, <2>2, <2>5, KeptKnows DEF Held
    <2>7. QED
      BY <2>4, <2>6 DEF Held, AllKnow
  <1>2. ASSUME NEW c \in Calls, Commit(c)
        PROVE  Held'
    <2>1. Kept
      BY <1>2, CommitKeeps
    <2>2. call'[c] = Idle /\ \A b \in Calls : b = c \/ call'[b] = call[b]
      BY <1>2, CommitOthers
    <2>3. \A b, d \in Calls : b # d => ~Conflict(call'[b], call'[d])
      BY <2>2, IdleConflicts DEF Held, Exclusive
    <2>4. Exclusive'
      BY <2>3 DEF Exclusive, Conflict
    <2>5. \A b \in Calls : Knows(call[b])'
      BY <2>1, <2>2, KeptKnows, IdleKnowsNext DEF Held
    <2>6. QED
      BY <2>4, <2>5 DEF Held, AllKnow
  <1>3. CASE Statement
    <2>1. Kept /\ call' = call
      BY <1>3, StatementKeeps, StatementGrows
    <2>2. Exclusive'
      BY <2>1 DEF Held, Exclusive, Conflict
    <2>3. \A b \in Calls : Knows(call[b])'
      BY <2>1, KeptKnows DEF Held
    <2>4. QED
      BY <2>2, <2>3 DEF Held, AllKnow
  <1>4. CASE UNCHANGED vars
    BY <1>4 DEF vars, Held, Exclusive, Conflict, AllKnow, Knows, SessionsOf, LiveTokens
  <1>5. QED
    BY <1>1, <1>2, <1>3, <1>4, Steps

LEMMA HeldInit == Init => Held
  <1> SUFFICES ASSUME Init PROVE Held
    OBVIOUS
  <1>1. \A c \in Calls : call[c] = Idle
    BY DEF Init
  <1>2. QED
    BY <1>1, IdleConflicts, IdleKnows DEF Held, Exclusive, AllKnow

Locking == Typed /\ Held

LEMMA LockingInv == Spec => []Locking
  <1>1. Init => Locking
    BY TypedInit, HeldInit DEF Locking
  <1>2. Locking /\ [Next]_vars => Locking'
    BY TypedNext, HeldNext DEF Locking
  <1>3. QED
    BY <1>1, <1>2, PTL DEF Spec

-----------------------------------------------------------------------------
(* Guesses.                                                                *)

LEMMA GuessesNext == Locking /\ GuessesBounded /\ [Next]_vars => GuessesBounded'
  <1> SUFFICES ASSUME Locking, GuessesBounded, [Next]_vars PROVE GuessesBounded'
    OBVIOUS
  <1> USE DEF Locking
  <1>1. ASSUME NEW spent, NEW guessed, NEW n \in {0, 1}, CodeRows(spent, guessed, n),
               \A i \in guessed : i \in DOMAIN codes => codes[i].attempts < MaxAttempts,
               n = 1 => codes'[Len(codes) + 1].attempts = 0
        PROVE  GuessesBounded'
    <2>1. SUFFICES ASSUME NEW i \in DOMAIN codes' PROVE codes'[i].attempts <= MaxAttempts
      BY DEF GuessesBounded
    <2>2. i \in DOMAIN codes \/ (n = 1 /\ i = Len(codes) + 1)
      BY <1>1, <2>1, Lengths DEF Typed, CodeRows
    <2>3. CASE i \in DOMAIN codes
      <3>1. codes[i].attempts \in Nat /\ codes[i].attempts <= MaxAttempts
        BY <2>3, Lengths DEF Typed, Code, GuessesBounded
      <3>2. codes'[i].attempts =
              IF i \in guessed THEN codes[i].attempts + 1 ELSE codes[i].attempts
        BY <1>1, <2>3 DEF CodeRows
      <3>3. QED
        BY <1>1, <2>3, <3>1, <3>2, AccountsAssumption DEF AccountsAssumption
    <2>4. CASE n = 1 /\ i = Len(codes) + 1
      BY <1>1, <2>4, AccountsAssumption DEF AccountsAssumption
    <2>5. QED
      BY <2>2, <2>3, <2>4
  <1>2. \A spent : CodeRows(spent, {}, 0) => GuessesBounded'
    BY <1>1, 0 # 1
  <1>3. ASSUME NEW c \in Calls, NEW x \in Call, Begun(c, x)
        PROVE  GuessesBounded'
    BY <1>2, <1>3, CodesSame DEF Begun, Typed
  <1>4. ASSUME NEW c \in Calls, SendInsert(c)
        PROVE  GuessesBounded'
    BY <1>1, <1>4, SendInsertRows DEF Typed
  <1>5. ASSUME NEW c \in Calls, NEW match \in BOOLEAN, VerifyWrite(c, match)
        PROVE  GuessesBounded'
    <2>1. CodeRows({}, IF match THEN {} ELSE {call[c].code}, 0)
      BY <1>5, VerifyWriteRows
    <2>2. codes[call[c].code].attempts < MaxAttempts
      BY <1>5 DEF VerifyWrite, End, Held, AllKnow, Knows
    <2>3. QED
      BY <1>1, <2>1, <2>2, 0 # 1
  <1>6. ASSUME NEW c \in Calls, Commit(c), ~SendInsert(c),
               \A match \in BOOLEAN : ~VerifyWrite(c, match)
        PROVE  GuessesBounded'
    <2>1. \E spent : CodeRows(spent, {}, 0)
      BY <1>6, CallRows DEF Commit, Rows
    <2>2. QED
      BY <1>2, <2>1
  <1>7. CASE Statement
    <2>1. \E spent : CodeRows(spent, {}, 0)
      BY <1>7, OtherRows DEF Statement, Rows
    <2>2. QED
      BY <1>2, <2>1
  <1>8. CASE UNCHANGED vars
    BY <1>8 DEF vars, GuessesBounded
  <1>9. QED
    BY <1>3, <1>4, <1>5, <1>6, <1>7, <1>8, Steps

\* However many guesses are made at once, a code counts at most max_attempts.
THEOREM GuessesStayBounded == Spec => []GuessesBounded
  <1>1. Init => GuessesBounded
    <2>1. Init => DOMAIN codes = {}
      BY DEF Init
    <2>2. QED
      BY <2>1 DEF GuessesBounded
  <1>2. QED
    BY <1>1, GuessesNext, LockingInv, PTL DEF Spec

-----------------------------------------------------------------------------
(* Sessions.  A family is named after a token that exists, so that a login    *)
(* opens a family of its own; a rotation ends the one live token of its.      *)

FamiliesKnown == \A t \in DOMAIN tokens : tokens[t].family \in DOMAIN tokens

Families == FamiliesKnown /\ OneLiveTokenPerFamily

LEMMA FamiliesNext == Locking /\ Families /\ [Next]_vars => Families'
  <1> SUFFICES ASSUME Locking, Families, [Next]_vars PROVE Families'
    OBVIOUS
  <1> USE DEF Locking
  <1>0. Len(tokens) \in Nat /\ DOMAIN tokens = 1..Len(tokens)
    BY Lengths DEF Typed
  <1>1. ASSUME NEW ended, TokenRows(ended, 0)
        PROVE  Families'
    <2>1. DOMAIN tokens' = DOMAIN tokens
      BY <1>0, <1>1 DEF TokenRows
    <2>2. QED
      BY <1>1, <2>1 DEF TokenRows, Families, FamiliesKnown, OneLiveTokenPerFamily, LiveTokens
  <1>2. ASSUME NEW ended, TokenRows(ended, 1),
               tokens'[Len(tokens) + 1].family \in DOMAIN tokens',
               \A t \in LiveTokens : t \notin ended =>
                  tokens[t].family # tokens'[Len(tokens) + 1].family
        PROVE  Families'
    <2>1. DOMAIN tokens' = 1..(Len(tokens) + 1)
      BY <1>2 DEF TokenRows
    <2>2. FamiliesKnown'
      <3>1. SUFFICES ASSUME NEW t \in DOMAIN tokens' PROVE tokens'[t].family \in DOMAIN tokens'
        BY DEF FamiliesKnown
      <3>2. t \in DOMAIN tokens \/ t = Len(tokens) + 1
        BY <1>0, <2>1
      <3>3. CASE t \in DOMAIN tokens
        <4>1. tokens'[t].family = tokens[t].family /\ tokens[t].family \in DOMAIN tokens
          BY <1>2, <3>3 DEF TokenRows, Families, FamiliesKnown
        <4>2. QED
          BY <1>0, <2>1, <4>1
      <3>4. QED
        BY <1>2, <3>2, <3>3
    <2>3. OneLiveTokenPerFamily'
      <3>1. SUFFICES ASSUME NEW s \in DOMAIN tokens', NEW t \in DOMAIN tokens',
                            ~tokens'[s].revoked, ~tokens'[t].revoked,
                            tokens'[s].family = tokens'[t].family
                     PROVE  s = t
        BY DEF OneLiveTokenPerFamily, LiveTokens
      <3>2. \A u \in DOMAIN tokens' : u \in DOMAIN tokens \/ u = Len(tokens) + 1
        BY <1>0, <2>1
      <3>3. \A u \in DOMAIN tokens : ~tokens'[u].revoked =>
              /\ u \in LiveTokens /\ u \notin ended
              /\ tokens'[u].family = tokens[u].family
        BY <1>2 DEF TokenRows, LiveTokens
      <3>4. \A u \in DOMAIN tokens : ~tokens'[u].revoked =>
              tokens'[u].family # tokens'[Len(tokens) + 1].family
        BY <1>2, <3>3
      <3>5. CASE s \in DOMAIN tokens /\ t \in DOMAIN tokens
        BY <3>1, <3>3, <3>5 DEF Families, OneLiveTokenPerFamily
      <3>6. QED
        BY <3>1, <3>2, <3>4, <3>5
    <2>4. QED
      BY <2>2, <2>3 DEF Families
  <1>3. ASSUME NEW c \in Calls, NEW x \in Call, Begun(c, x)
        PROVE  Families'
    BY <1>1, <1>3, TokensSame DEF Begun, Typed
  <1>4. ASSUME NEW c \in Calls, ExchangeCommit(c)
        PROVE  Families'
    <2>1. TokenRows({}, 1) /\ tokens'[Len(tokens) + 1].family = Len(tokens) + 1
      BY <1>4, ExchangeRows
    <2>2. \A t \in LiveTokens : tokens[t].family # Len(tokens) + 1
      BY <1>0 DEF LiveTokens, Families, FamiliesKnown
    <2>3. Len(tokens) + 1 \in DOMAIN tokens'
      BY <1>0, <2>1 DEF TokenRows
    <2>4. QED
      BY <1>2, <2>1, <2>2, <2>3
  <1>5. ASSUME NEW c \in Calls, RotateCommit(c)
        PROVE  Families'
    <2> DEFINE u == call[c].token
    <2>1. /\ u \in DOMAIN tokens /\ TokenRows({u}, 1)
          /\ tokens'[Len(tokens) + 1].family = tokens[u].family
      BY <1>5, RotateRows
    <2>2. ~tokens[u].revoked
      BY <1>5 DEF RotateCommit, End, Held, AllKnow, Knows
    <2>3. u \in LiveTokens
      BY <2>1, <2>2 DEF LiveTokens
    <2> HIDE DEF u
    <2>4. \A t \in LiveTokens : t \notin {u} => tokens[t].family # tokens[u].family
      BY <2>3 DEF Families, OneLiveTokenPerFamily
    <2>5. tokens[u].family \in DOMAIN tokens'
      BY <1>0, <2>1 DEF TokenRows, Families, FamiliesKnown
    <2>6. QED
      BY <1>2, <2>1, <2>4, <2>5
  <1>6. ASSUME NEW c \in Calls, Commit(c), ~ExchangeCommit(c), ~RotateCommit(c)
        PROVE  Families'
    <2>1. \E ended : TokenRows(ended, 0)
      BY <1>6, CallRows DEF Commit, Rows
    <2>2. QED
      BY <1>1, <2>1
  <1>7. CASE Statement
    <2>1. \E ended : TokenRows(ended, 0)
      BY <1>7, OtherRows DEF Statement, Rows
    <2>2. QED
      BY <1>1, <2>1
  <1>8. CASE UNCHANGED vars
    BY <1>8 DEF vars, Families, FamiliesKnown, OneLiveTokenPerFamily, LiveTokens
  <1>9. QED
    BY <1>3, <1>4, <1>5, <1>6, <1>7, <1>8, Steps

\* Rotations, replays and logouts never leave a session with two live tokens.
THEOREM OneLiveToken == Spec => []OneLiveTokenPerFamily
  <1>1. Init => Families
    <2>1. Init => DOMAIN tokens = {}
      BY DEF Init
    <2>2. QED
      BY <2>1 DEF Families, FamiliesKnown, OneLiveTokenPerFamily, LiveTokens
  <1>2. Families => OneLiveTokenPerFamily
    BY DEF Families
  <1>3. QED
    BY <1>1, <1>2, FamiliesNext, LockingInv, PTL DEF Spec

-----------------------------------------------------------------------------
(* Accounts.                                                               *)

LEMMA AccountsNext == Locking /\ OneLiveAccountPerNumber /\ [Next]_vars => OneLiveAccountPerNumber'
  <1> SUFFICES ASSUME Locking, OneLiveAccountPerNumber, [Next]_vars PROVE OneLiveAccountPerNumber'
    OBVIOUS
  <1> USE DEF Locking
  <1> DEFINE Alive(x) == x.status \in {"active", "suspended"}
  <1>0. Len(accounts) \in Nat /\ DOMAIN accounts = 1..Len(accounts)
    BY Lengths DEF Typed
  <1>1. \A a, b \in DOMAIN accounts :
          /\ accounts[a].phone = accounts[b].phone /\ Alive(accounts[a]) /\ Alive(accounts[b])
          => a = b
    BY DEF OneLiveAccountPerNumber, Live
  <1>2. ASSUME DOMAIN accounts' = DOMAIN accounts,
               \A a \in DOMAIN accounts :
                 accounts'[a].phone = accounts[a].phone /\ (Alive(accounts'[a]) => Alive(accounts[a]))
        PROVE  OneLiveAccountPerNumber'
    BY <1>1, <1>2 DEF OneLiveAccountPerNumber, Live
  <1>3. ASSUME NEW moved, NEW to, NEW by, AccountRows(moved, to, by, 0),
               to \in {"active", "suspended"} => \A a \in moved :
                 a \in DOMAIN accounts => Alive(accounts[a])
        PROVE  OneLiveAccountPerNumber'
    <2>1. DOMAIN accounts' = DOMAIN accounts
      BY <1>0, <1>3 DEF AccountRows
    <2>2. \A a \in DOMAIN accounts :
            accounts'[a].phone = accounts[a].phone /\ (Alive(accounts'[a]) => Alive(accounts[a]))
      BY <1>3 DEF AccountRows
    <2>3. QED
      BY <1>2, <2>1, <2>2
  <1>4. ASSUME NEW p \in Phones, OpensAccount(p)
        PROVE  OneLiveAccountPerNumber'
    <2>1. DOMAIN accounts' = 1..(Len(accounts) + 1)
      BY <1>4 DEF OpensAccount, AccountRows
    <2>2. \A a \in DOMAIN accounts' : a \in DOMAIN accounts \/ a = Len(accounts) + 1
      BY <1>0, <2>1
    <2>3. \A a \in DOMAIN accounts :
            accounts'[a].phone = accounts[a].phone /\ accounts'[a].status = accounts[a].status
      BY <1>4 DEF OpensAccount, AccountRows
    <2>4. \A a \in DOMAIN accounts : Alive(accounts[a]) => accounts[a].phone # p
      BY <1>4 DEF OpensAccount, Live
    <2>5. accounts'[Len(accounts) + 1].phone = p
      BY <1>4 DEF OpensAccount
    <2>6. \A a, b \in DOMAIN accounts' :
            /\ accounts'[a].phone = accounts'[b].phone /\ Alive(accounts'[a]) /\ Alive(accounts'[b])
            => a = b
      BY <1>1, <2>2, <2>3, <2>4, <2>5
    <2>7. QED
      BY <2>6 DEF OneLiveAccountPerNumber, Live
  <1>5. AccountRows({}, "active", 0, 0) => OneLiveAccountPerNumber'
    BY <1>3
  <1>6. ASSUME NEW c \in Calls, NEW x \in Call, Begun(c, x)
        PROVE  OneLiveAccountPerNumber'
    BY <1>5, <1>6, AccountsSame DEF Begun, Typed
  <1>7. ASSUME NEW c \in Calls, SuspendCommit(c)
        PROVE  OneLiveAccountPerNumber'
    <2>1. AccountRows({call[c].account}, "suspended", 0, 0)
      BY <1>7, SuspendRows
    <2>2. accounts[call[c].account].status = "active"
      BY <1>7 DEF SuspendCommit, End, Held, AllKnow, Knows
    <2>3. QED
      BY <1>3, <2>1, <2>2
  <1>8. ASSUME NEW c \in Calls, DeleteCommit(c)
        PROVE  OneLiveAccountPerNumber'
    <2>1. AccountRows({call[c].account}, "deleted", call[c].code, 0)
      BY <1>8, DeleteRows
    <2>2. QED
      BY <1>3, <2>1
  <1>9. ASSUME NEW c \in Calls, ActivateCommit(c) \/ LinkCommit(c)
        PROVE  OneLiveAccountPerNumber'
    BY <1>4, <1>5, <1>9, CallRows DEF Rows
  <1>10. ASSUME NEW c \in Calls, Commit(c), ~SuspendCommit(c), ~DeleteCommit(c),
                ~ActivateCommit(c), ~LinkCommit(c)
         PROVE  OneLiveAccountPerNumber'
    <2>1. AccountRows({}, "active", 0, 0)
      BY <1>10, CallRows DEF Commit, Rows
    <2>2. QED
      BY <1>5, <2>1
  <1>11. ASSUME NEW a \in DOMAIN accounts, Reactivate(a)
         PROVE  OneLiveAccountPerNumber'
    <2>1. AccountRows({a}, "active", 0, 0) /\ accounts[a].status = "suspended"
      BY <1>11, ReactivateRows DEF Typed, Reactivate
    <2>2. QED
      BY <1>3, <2>1
  <1>12. ASSUME Tick \/ \E r \in DOMAIN requests : Triage(r)
         PROVE  OneLiveAccountPerNumber'
    BY <1>5, <1>12, OtherRows DEF Rows
  <1>13. CASE UNCHANGED vars
    BY <1>13 DEF vars, OneLiveAccountPerNumber, Live
  <1>14. QED
    BY <1>6, <1>7, <1>8, <1>9, <1>10, <1>11, <1>12, <1>13, Steps DEF Statement

\* A number never has two accounts that are active or suspended, whatever
\* activations, links, suspensions, reactivations and deletions interleave.
THEOREM OneLiveAccount == Spec => []OneLiveAccountPerNumber
  <1>1. Init => OneLiveAccountPerNumber
    <2>1. Init => DOMAIN accounts = {}
      BY DEF Init
    <2>2. QED
      BY <2>1 DEF OneLiveAccountPerNumber
  <1>2. QED
    BY <1>1, AccountsNext, LockingInv, PTL DEF Spec

LEMMA ClosingNext ==
    Locking /\ [Next]_vars =>
      [\A a \in DOMAIN accounts :
         accounts[a].status # accounts'[a].status /\ accounts'[a].status # "active"
           => SessionsOf(a)' = {}]_vars
  <1> SUFFICES ASSUME Locking, Next, NEW a \in DOMAIN accounts,
                      accounts[a].status # accounts'[a].status, accounts'[a].status # "active"
               PROVE  SessionsOf(a)' = {}
    OBVIOUS
  <1> USE DEF Locking
  <1>0. Len(tokens) \in Nat /\ DOMAIN tokens = 1..Len(tokens)
    BY Lengths DEF Typed
  <1>1. ASSUME NEW c \in Calls, AccountRows({call[c].account}, "suspended", 0, 0) \/
                 AccountRows({call[c].account}, "deleted", call[c].code, 0),
               call[c].op \in {"suspend", "delete"}, TokenRows(call[c].saw, 0)
        PROVE  SessionsOf(a)' = {}
    <2>1. a = call[c].account
      BY <1>1 DEF AccountRows
    <2>2. SessionsOf(a) \subseteq call[c].saw
      BY <1>1, <2>1 DEF Held, AllKnow, Knows
    <2>3. DOMAIN tokens' = DOMAIN tokens
      BY <1>0, <1>1 DEF TokenRows
    <2>4. \A t \in DOMAIN tokens : tokens'[t].account = a => tokens'[t].revoked
      BY <1>1, <2>2 DEF TokenRows, SessionsOf, LiveTokens
    <2>5. QED
      BY <2>3, <2>4 DEF SessionsOf, LiveTokens
  <1>2. ~AccountRows({}, "active", 0, 0) /\ ~AccountRows({}, "active", 0, 1)
    BY DEF AccountRows
  <1>3. \A b : ~AccountRows({b}, "active", 0, 0)
    BY DEF AccountRows
  <1>4. ASSUME NEW c \in Calls, NEW x \in Call, Begun(c, x)
        PROVE  SessionsOf(a)' = {}
    BY <1>2, <1>4, AccountsSame DEF Begun, Typed
  <1>5. ASSUME NEW c \in Calls, SuspendCommit(c)
        PROVE  SessionsOf(a)' = {}
    BY <1>1, <1>5, SuspendRows DEF SuspendCommit, End
  <1>6. ASSUME NEW c \in Calls, DeleteCommit(c)
        PROVE  SessionsOf(a)' = {}
    BY <1>1, <1>6, DeleteRows DEF DeleteCommit, End
  <1>7. ASSUME NEW c \in Calls, Commit(c), ~SuspendCommit(c), ~DeleteCommit(c)
        PROVE  FALSE
    BY <1>2, <1>7, CallRows DEF Commit, Rows
  <1>8. CASE Statement
    BY <1>2, <1>3, <1>8, OtherRows DEF Statement, Rows
  <1>9. QED
    BY <1>4, <1>5, <1>6, <1>7, <1>8, Steps

\* The step that suspends or deletes an account leaves none of its sessions live.
THEOREM ClosingLeavesNoSession == Spec => ClosingEndsSessions
  BY ClosingNext, LockingInv, PTL DEF Spec, ClosingEndsSessions

-----------------------------------------------------------------------------
(* Handles.  A handle that is not consumed has bought nothing yet, and what   *)
(* names a code names one that exists.                                       *)

BuysKnown ==
    /\ \A t \in DOMAIN tokens : tokens[t].openedBy <= Len(codes)
    /\ \A r \in DOMAIN requests : requests[r].madeBy <= Len(codes)
    /\ \A a \in DOMAIN accounts : accounts[a].closedBy <= Len(codes)

Unspent ==
    \A i \in DOMAIN codes : ~codes[i].consumed =>
        /\ \A t \in DOMAIN tokens : tokens[t].openedBy # i
        /\ \A r \in DOMAIN requests : requests[r].madeBy # i
        /\ \A a \in DOMAIN accounts : accounts[a].closedBy # i

OneBuy ==
    \A i \in DOMAIN codes :
        /\ \A s, t \in DOMAIN tokens : tokens[s].openedBy = i /\ tokens[t].openedBy = i => s = t
        /\ \A q, r \in DOMAIN requests : requests[q].madeBy = i /\ requests[r].madeBy = i => q = r
        /\ \A a, b \in DOMAIN accounts : accounts[a].closedBy = i /\ accounts[b].closedBy = i => a = b
        /\ \A t \in DOMAIN tokens, r \in DOMAIN requests :
             ~(tokens[t].openedBy = i /\ requests[r].madeBy = i)
        /\ \A t \in DOMAIN tokens, a \in DOMAIN accounts :
             ~(tokens[t].openedBy = i /\ accounts[a].closedBy = i)
        /\ \A r \in DOMAIN requests, a \in DOMAIN accounts :
             ~(requests[r].madeBy = i /\ accounts[a].closedBy = i)

Buys == BuysKnown /\ Unspent /\ OneBuy

LEMMA CountAtMostOne ==
    ASSUME NEW S, NEW P, P \subseteq S, \A x, y \in P : x = y
    PROVE  \/ P = {} /\ Cardinality(P) = 0
           \/ P # {} /\ Cardinality(P) = 1
  <1>1. CASE P = {}
    BY <1>1, FS_EmptySet
  <1>2. CASE P # {}
    <2>1. PICK x : x \in P
      BY <1>2
    <2>2. P = {x}
      BY <2>1
    <2>3. QED
      BY <1>2, <2>2, FS_Singleton
  <1>3. QED
    BY <1>1, <1>2

LEMMA BuysCount == OneBuy => HandleBuysOnce
  <1> SUFFICES ASSUME OneBuy, NEW i \in DOMAIN codes
               PROVE  Cardinality({t \in DOMAIN tokens : tokens[t].openedBy = i})
                        + Cardinality({r \in DOMAIN requests : requests[r].madeBy = i})
                        + Cardinality({a \in DOMAIN accounts : accounts[a].closedBy = i}) <= 1
    BY DEF HandleBuysOnce
  <1> DEFINE T == {t \in DOMAIN tokens : tokens[t].openedBy = i}
             R == {r \in DOMAIN requests : requests[r].madeBy = i}
             A == {a \in DOMAIN accounts : accounts[a].closedBy = i}
  <1>1. /\ \A x, y \in T : x = y
        /\ \A x, y \in R : x = y
        /\ \A x, y \in A : x = y
    BY DEF OneBuy
  <1>2. (T = {} \/ R = {}) /\ (T = {} \/ A = {}) /\ (R = {} \/ A = {})
    BY DEF OneBuy
  <1> HIDE DEF T, R, A
  <1>3. /\ (T = {} /\ Cardinality(T) = 0) \/ (T # {} /\ Cardinality(T) = 1)
        /\ (R = {} /\ Cardinality(R) = 0) \/ (R # {} /\ Cardinality(R) = 1)
        /\ (A = {} /\ Cardinality(A) = 0) \/ (A # {} /\ Cardinality(A) = 1)
    BY <1>1, CountAtMostOne
  <1>4. Cardinality(T) + Cardinality(R) + Cardinality(A) <= 1
    BY <1>2, <1>3
  <1>5. QED
    BY <1>4 DEF T, R, A

\* The one row of a step, if any, that names a code names the one it consumes.
Buying(kind, row, j) ==
    /\ \A t \in DOMAIN tokens' :
         \/ tokens'[t].openedBy = 0
         \/ t \in DOMAIN tokens /\ tokens'[t].openedBy = tokens[t].openedBy
         \/ kind = "token" /\ t = row /\ tokens'[t].openedBy = j
    /\ \A r \in DOMAIN requests' :
         \/ r \in DOMAIN requests /\ requests'[r].madeBy = requests[r].madeBy
         \/ kind = "request" /\ r = row /\ requests'[r].madeBy = j
    /\ \A a \in DOMAIN accounts' :
         \/ accounts'[a].closedBy = 0
         \/ a \in DOMAIN accounts /\ accounts'[a].closedBy = accounts[a].closedBy
         \/ kind = "account" /\ a = row /\ accounts'[a].closedBy = j
    /\ Len(codes') \in Nat /\ Len(codes') >= Len(codes) /\ DOMAIN codes' = 1..Len(codes')
    /\ \A i \in DOMAIN codes : codes[i].consumed => codes'[i].consumed
    /\ kind # "none" => j \in DOMAIN codes /\ ~codes[j].consumed /\ codes'[j].consumed

LEMMA BuyingBuys ==
    ASSUME Typed, Buys, NEW kind, NEW row, NEW j, Buying(kind, row, j)
    PROVE  Buys'
  <1>0. /\ Len(codes) \in Nat /\ DOMAIN codes = 1..Len(codes)
        /\ Len(codes') \in Nat /\ Len(codes') >= Len(codes) /\ DOMAIN codes' = 1..Len(codes')
        /\ \A t \in DOMAIN tokens : tokens[t].openedBy \in Nat
        /\ \A r \in DOMAIN requests : requests[r].madeBy \in Nat
        /\ \A a \in DOMAIN accounts : accounts[a].closedBy \in Nat
    BY Lengths DEF Typed, Token, Request, Account, Buying
  <1>1. kind # "none" => j \in 1..Len(codes) /\ ~codes[j].consumed /\ codes'[j].consumed
    BY <1>0 DEF Buying
  <1>2. /\ \A t \in DOMAIN tokens' :
             \/ tokens'[t].openedBy = 0
             \/ t \in DOMAIN tokens /\ tokens'[t].openedBy = tokens[t].openedBy
             \/ kind = "token" /\ t = row /\ tokens'[t].openedBy = j
        /\ \A r \in DOMAIN requests' :
             \/ r \in DOMAIN requests /\ requests'[r].madeBy = requests[r].madeBy
             \/ kind = "request" /\ r = row /\ requests'[r].madeBy = j
        /\ \A a \in DOMAIN accounts' :
             \/ accounts'[a].closedBy = 0
             \/ a \in DOMAIN accounts /\ accounts'[a].closedBy = accounts[a].closedBy
             \/ kind = "account" /\ a = row /\ accounts'[a].closedBy = j
        /\ \A i \in DOMAIN codes : codes[i].consumed => codes'[i].consumed
    BY DEF Buying
  <1>3. BuysKnown'
    BY <1>0, <1>1, <1>2 DEF Buys, BuysKnown
  <1>4. ASSUME NEW i \in DOMAIN codes', i \notin DOMAIN codes
        PROVE  /\ \A t \in DOMAIN tokens' : tokens'[t].openedBy # i
               /\ \A r \in DOMAIN requests' : requests'[r].madeBy # i
               /\ \A a \in DOMAIN accounts' : accounts'[a].closedBy # i
    BY <1>0, <1>1, <1>2, <1>4 DEF Buys, BuysKnown
  <1>5. Unspent'
    <2>1. SUFFICES ASSUME NEW i \in DOMAIN codes', ~codes'[i].consumed
                   PROVE  /\ \A t \in DOMAIN tokens' : tokens'[t].openedBy # i
                          /\ \A r \in DOMAIN requests' : requests'[r].madeBy # i
                          /\ \A a \in DOMAIN accounts' : accounts'[a].closedBy # i
      BY DEF Unspent
    <2>2. CASE i \in DOMAIN codes
      <3>1. i # 0 /\ ~codes[i].consumed /\ (kind # "none" => i # j)
        BY <1>0, <1>1, <1>2, <2>1, <2>2
      <3>2. QED
        BY <1>2, <2>2, <3>1 DEF Buys, Unspent
    <2>3. QED
      BY <1>4, <2>2
  <1>6. OneBuy'
    <2>1. SUFFICES ASSUME NEW i \in DOMAIN codes'
                   PROVE
        /\ \A s, t \in DOMAIN tokens' : tokens'[s].openedBy = i /\ tokens'[t].openedBy = i => s = t
        /\ \A q, r \in DOMAIN requests' : requests'[q].madeBy = i /\ requests'[r].madeBy = i => q = r
        /\ \A a, b \in DOMAIN accounts' : accounts'[a].closedBy = i /\ accounts'[b].closedBy = i => a = b
        /\ \A t \in DOMAIN tokens', r \in DOMAIN requests' :
             ~(tokens'[t].openedBy = i /\ requests'[r].madeBy = i)
        /\ \A t \in DOMAIN tokens', a \in DOMAIN accounts' :
             ~(tokens'[t].openedBy = i /\ accounts'[a].closedBy = i)
        /\ \A r \in DOMAIN requests', a \in DOMAIN accounts' :
             ~(requests'[r].madeBy = i /\ accounts'[a].closedBy = i)
      BY DEF OneBuy
    <2>2. CASE i \notin DOMAIN codes
      BY <1>4, <2>2
    <2>3. CASE i \in DOMAIN codes /\ kind # "none" /\ i = j
      <3>1. i # 0 /\ ~codes[i].consumed
        BY <1>0, <1>1, <2>3
      <3>2. /\ \A t \in DOMAIN tokens : tokens[t].openedBy # i
            /\ \A r \in DOMAIN requests : requests[r].madeBy # i
            /\ \A a \in DOMAIN accounts : accounts[a].closedBy # i
        BY <2>3, <3>1 DEF Buys, Unspent
      <3>3. /\ \A t \in DOMAIN tokens' : tokens'[t].openedBy = i => kind = "token" /\ t = row
            /\ \A r \in DOMAIN requests' : requests'[r].madeBy = i => kind = "request" /\ r = row
            /\ \A a \in DOMAIN accounts' : accounts'[a].closedBy = i => kind = "account" /\ a = row
        BY <1>2, <3>1, <3>2
      <3>4. QED
        BY <3>3
    <2>4. CASE i \in DOMAIN codes /\ (kind = "none" \/ i # j)
      <3>1. i # 0
        BY <1>0, <2>4
      <3>2. /\ \A t \in DOMAIN tokens' : tokens'[t].openedBy = i =>
                 t \in DOMAIN tokens /\ tokens[t].openedBy = i
            /\ \A r \in DOMAIN requests' : requests'[r].madeBy = i =>
                 r \in DOMAIN requests /\ requests[r].madeBy = i
            /\ \A a \in DOMAIN accounts' : accounts'[a].closedBy = i =>
                 a \in DOMAIN accounts /\ accounts[a].closedBy = i
        BY <1>2, <2>4, <3>1
      <3>3. QED
        BY <2>4, <3>2 DEF Buys, OneBuy
    <2>5. QED
      BY <2>2, <2>3, <2>4
  <1>7. QED
    BY <1>3, <1>5, <1>6 DEF Buys

\* How the tables that name codes change, apart from the row bought.
LEMMA CodesBuying ==
    ASSUME TypeOK, NEW spent, NEW guessed, NEW n \in {0, 1}, CodeRows(spent, guessed, n)
    PROVE  /\ Len(codes') \in Nat /\ Len(codes') >= Len(codes) /\ DOMAIN codes' = 1..Len(codes')
           /\ \A i \in DOMAIN codes : codes[i].consumed => codes'[i].consumed
           /\ \A i \in DOMAIN codes : i \in spent => codes'[i].consumed
  BY Lengths DEF CodeRows

LEMMA TokensBuying ==
    ASSUME TypeOK, NEW ended, NEW n \in {0, 1}, TokenRows(ended, n)
    PROVE  \A t \in DOMAIN tokens' :
             \/ t \in DOMAIN tokens /\ tokens'[t].openedBy = tokens[t].openedBy
             \/ n = 1 /\ t = Len(tokens) + 1
  BY Lengths DEF TokenRows

LEMMA RequestsBuying ==
    ASSUME TypeOK, NEW n \in {0, 1}, RequestRows(n)
    PROVE  \A r \in DOMAIN requests' :
             \/ r \in DOMAIN requests /\ requests'[r].madeBy = requests[r].madeBy
             \/ n = 1 /\ r = Len(requests) + 1
  BY Lengths DEF RequestRows

LEMMA AccountsBuying ==
    ASSUME TypeOK, NEW moved, NEW to, NEW by, NEW n \in {0, 1}, AccountRows(moved, to, by, n)
    PROVE  \A a \in DOMAIN accounts' :
             \/ a \in DOMAIN accounts /\ accounts'[a].closedBy = accounts[a].closedBy
             \/ a \in moved /\ to = "deleted" /\ accounts'[a].closedBy = by
             \/ n = 1 /\ a = Len(accounts) + 1
  BY Lengths DEF AccountRows

LEMMA RowsBuyNothing ==
    ASSUME Typed, NEW spent, NEW guessed, NEW n \in {0, 1}, NEW ended, NEW m \in {0, 1},
           NEW moved, NEW to, to # "deleted", NEW by, NEW k \in {0, 1},
           Rows(spent, guessed, n, ended, m, moved, to, by, k, 0),
           m = 1 => tokens'[Len(tokens) + 1].openedBy = 0,
           k = 1 => accounts'[Len(accounts) + 1].closedBy = 0
    PROVE  Buying("none", 0, 0)
  <1>1. /\ CodeRows(spent, guessed, n) /\ TokenRows(ended, m)
        /\ AccountRows(moved, to, by, k) /\ RequestRows(0)
    BY DEF Rows
  <1>2. /\ Len(codes') \in Nat /\ Len(codes') >= Len(codes) /\ DOMAIN codes' = 1..Len(codes')
        /\ \A i \in DOMAIN codes : codes[i].consumed => codes'[i].consumed
    BY <1>1, CodesBuying DEF Typed
  <1>3. \A t \in DOMAIN tokens' :
          \/ tokens'[t].openedBy = 0
          \/ t \in DOMAIN tokens /\ tokens'[t].openedBy = tokens[t].openedBy
    BY <1>1, TokensBuying DEF Typed
  <1>4. \A r \in DOMAIN requests' : r \in DOMAIN requests /\ requests'[r].madeBy = requests[r].madeBy
    BY <1>1, RequestsBuying, 0 # 1 DEF Typed
  <1>5. \A a \in DOMAIN accounts' :
          \/ accounts'[a].closedBy = 0
          \/ a \in DOMAIN accounts /\ accounts'[a].closedBy = accounts[a].closedBy
    BY <1>1, AccountsBuying DEF Typed
  <1>6. QED
    BY <1>2, <1>3, <1>4, <1>5 DEF Buying

LEMMA BuysNext == Locking /\ Buys /\ [Next]_vars => Buys'
  <1> SUFFICES ASSUME Locking, Buys, [Next]_vars PROVE Buys'
    OBVIOUS
  <1> USE DEF Locking
  <1>0. Buying("none", 0, 0) => Buys'
    BY BuyingBuys
  <1>1. None => Buys'
    BY <1>0, RowsBuyNothing, 0 # 1, "active" # "deleted" DEF None
  <1>2. ASSUME NEW c \in Calls, call[c].op \in {"exchange", "apply", "delete"}
        PROVE  call[c].code \in DOMAIN codes /\ ~codes[call[c].code].consumed
    BY <1>2 DEF Typed, References, UsesCode, Held, AllKnow, Knows
  <1>3. ASSUME NEW c \in Calls, NEW x \in Call, Begun(c, x)
        PROVE  Buys'
    BY <1>1, <1>3, SameRows DEF Begun, Typed, Rows, None
  <1>4. ASSUME NEW c \in Calls, SendInsert(c) PROVE Buys'
    <2>1. Rows({}, {}, 1, {}, 0, {}, "active", 0, 0, 0)
      BY <1>4, CallRows
    <2>2. QED
      BY <1>0, <2>1, RowsBuyNothing, 0 # 1, "active" # "deleted"
  <1>5. ASSUME NEW c \in Calls, NEW match \in BOOLEAN, VerifyWrite(c, match) PROVE Buys'
    <2> DEFINE guessed == IF match THEN {} ELSE {call[c].code}
    <2>1. Rows({}, guessed, 0, {}, 0, {}, "active", 0, 0, 0)
      BY <1>5, CallRows
    <2> HIDE DEF guessed
    <2>2. QED
      BY <1>0, <2>1, RowsBuyNothing, 0 # 1, "active" # "deleted"
  <1>6. ASSUME NEW c \in Calls, ExchangeCommit(c) PROVE Buys'
    <2> DEFINE j == call[c].code
    <2>1. j \in DOMAIN codes /\ ~codes[j].consumed
      BY <1>2, <1>6 DEF ExchangeCommit, End
    <2>2. /\ CodeRows({j}, {}, 0) /\ TokenRows({}, 1)
          /\ AccountRows({}, "active", 0, 0) /\ RequestRows(0)
      BY <1>6, CallRows DEF Rows
    <2>3. tokens'[Len(tokens) + 1].openedBy = j
      BY <1>6, ExchangeRows
    <2> HIDE DEF j
    <2>4. Buying("token", Len(tokens) + 1, j)
      BY <2>1, <2>2, <2>3, CodesBuying, TokensBuying, RequestsBuying, AccountsBuying, 0 # 1
         DEF Typed, Buying
    <2>5. QED
      BY <2>4, BuyingBuys
  <1>7. ASSUME NEW c \in Calls, RotateCommit(c) PROVE Buys'
    <2>1. Rows({}, {}, 0, {call[c].token}, 1, {}, "active", 0, 0, 0)
      BY <1>7, CallRows
    <2>2. tokens'[Len(tokens) + 1].openedBy = 0
      BY <1>7, RotateRows
    <2>3. QED
      BY <1>0, <2>1, <2>2, RowsBuyNothing, 0 # 1, "active" # "deleted"
  <1>8. ASSUME NEW c \in Calls, RevokeFamilyEnd(c) PROVE Buys'
    <2>1. Rows({}, {}, 0, call[c].saw, 0, {}, "active", 0, 0, 0)
      BY <1>8, CallRows
    <2>2. QED
      BY <1>0, <2>1, RowsBuyNothing, 0 # 1, "active" # "deleted"
  <1>9. ASSUME NEW c \in Calls, SuspendCommit(c) PROVE Buys'
    <2>1. Rows({}, {}, 0, call[c].saw, 0, {call[c].account}, "suspended", 0, 0, 0)
      BY <1>9, CallRows
    <2>2. QED
      BY <1>0, <2>1, RowsBuyNothing, 0 # 1, "suspended" # "deleted"
  <1>10. ASSUME NEW c \in Calls, DeleteCommit(c) PROVE Buys'
    <2> DEFINE j == call[c].code
               d == call[c].account
    <2>1. j \in DOMAIN codes /\ ~codes[j].consumed
      BY <1>2, <1>10 DEF DeleteCommit, End
    <2>2. /\ CodeRows({j}, {}, 0) /\ TokenRows(call[c].saw, 0)
          /\ AccountRows({d}, "deleted", j, 0) /\ RequestRows(0)
      BY <1>10, CallRows DEF Rows
    <2> HIDE DEF j, d
    <2>3. Buying("account", d, j)
      BY <2>1, <2>2, CodesBuying, TokensBuying, RequestsBuying, AccountsBuying, 0 # 1
         DEF Typed, Buying
    <2>4. QED
      BY <2>3, BuyingBuys
  <1>11. ASSUME NEW c \in Calls, ActivateCommit(c) \/ LinkCommit(c) PROVE Buys'
    <2>1. \/ None
          \/ /\ Rows({}, {}, 0, {}, 0, {}, "active", 0, 1, 0)
             /\ accounts'[Len(accounts) + 1].closedBy = 0
      BY <1>11, CallRows DEF OpensAccount, None
    <2>2. ASSUME Rows({}, {}, 0, {}, 0, {}, "active", 0, 1, 0),
                 accounts'[Len(accounts) + 1].closedBy = 0
          PROVE  Buying("none", 0, 0)
      BY <2>2, RowsBuyNothing, 0 # 1, "active" # "deleted"
    <2>3. QED
      BY <1>0, <1>1, <2>1, <2>2
  <1>12. ASSUME NEW c \in Calls, ApplyCommit(c) PROVE Buys'
    <2> DEFINE j == call[c].code
    <2>1. j \in DOMAIN codes /\ ~codes[j].consumed
      BY <1>2, <1>12 DEF ApplyCommit, End
    <2>2. /\ CodeRows({j}, {}, 0) /\ TokenRows({}, 0)
          /\ AccountRows({}, "active", 0, 0) /\ RequestRows(1)
      BY <1>12, CallRows DEF Rows
    <2>3. requests'[Len(requests) + 1].madeBy = j
      BY <1>12, ApplyRows
    <2> HIDE DEF j
    <2>4. Buying("request", Len(requests) + 1, j)
      BY <2>1, <2>2, <2>3, CodesBuying, TokensBuying, RequestsBuying, AccountsBuying, 0 # 1
         DEF Typed, Buying
    <2>5. QED
      BY <2>4, BuyingBuys
  <1>13. ASSUME NEW c \in Calls, Abort(c) PROVE Buys'
    BY <1>1, <1>13, CallRows DEF None
  <1>15. ASSUME NEW a \in DOMAIN accounts, Reactivate(a) PROVE Buys'
    <2>1. Rows({}, {}, 0, {}, 0, {a}, "active", 0, 0, 0)
      BY <1>15, OtherRows
    <2>2. QED
      BY <1>0, <2>1, RowsBuyNothing, 0 # 1, "active" # "deleted"
  <1>16. ASSUME Tick \/ \E r \in DOMAIN requests : Triage(r) PROVE Buys'
    BY <1>1, <1>16, OtherRows DEF None
  <1>17. CASE UNCHANGED vars
    BY <1>17 DEF vars, Buys, BuysKnown, Unspent, OneBuy
  <1>18. QED
    BY <1>3, <1>4, <1>5, <1>6, <1>7, <1>8, <1>9, <1>10, <1>11, <1>12, <1>13, <1>15, <1>16,
       <1>17, Steps DEF Commit, Statement

\* Over its life a handle opens one session, files one request or deletes one
\* account, whatever calls present it at once.
THEOREM HandlesBuyOnce == Spec => []HandleBuysOnce
  <1>1. Init => Buys
    <2>1. Init => /\ DOMAIN tokens = {} /\ DOMAIN requests = {}
                  /\ DOMAIN accounts = {} /\ DOMAIN codes = {}
      BY DEF Init
    <2>2. QED
      BY <2>1 DEF Buys, BuysKnown, Unspent, OneBuy
  <1>2. Buys => HandleBuysOnce
    BY BuysCount DEF Buys
  <1>3. QED
    BY <1>1, <1>2, BuysNext, LockingInv, PTL DEF Spec

-----------------------------------------------------------------------------
(* The daily ceiling.  A message is in one term of this sum at a time: its     *)
(* call's until the insert, its row's from then on.                          *)

Sending(p) == {c \in Calls : call[c].op = "send" /\ call[c].phone = p}

CapHolds(p) == Cardinality(SentTo(p)) + Cardinality(Sending(p)) < DailyCap + Cardinality(Calls)

Capped == DailyCap > 0 => \A p \in Phones : CapHolds(p)

LEMMA Counts ==
    ASSUME Typed, NEW p
    PROVE  /\ IsFiniteSet(SentTo(p)) /\ Cardinality(SentTo(p)) \in Nat
           /\ IsFiniteSet(Sending(p)) /\ Cardinality(Sending(p)) \in Nat
           /\ Cardinality(Sending(p)) <= Cardinality(Calls) /\ Cardinality(Calls) \in Nat
  <1>1. IsFiniteSet(DOMAIN codes)
    BY Lengths, FS_Interval DEF Typed
  <1>2. SentTo(p) \subseteq DOMAIN codes /\ Sending(p) \subseteq Calls
    BY DEF SentTo, Sending
  <1>3. QED
    BY <1>1, <1>2, FS_Subset, FS_CardinalityType, AccountsAssumption DEF AccountsAssumption

LEMMA CappedNext == Locking /\ Capped /\ [Next]_vars => Capped'
  <1> SUFFICES ASSUME Locking, Capped, [Next]_vars, DailyCap > 0, NEW p \in Phones
               PROVE  CapHolds(p)'
    BY DEF Capped
  <1> USE DEF Locking
  <1>1. /\ DailyCap \in Nat /\ CapHolds(p)
        /\ IsFiniteSet(SentTo(p)) /\ Cardinality(SentTo(p)) \in Nat
        /\ IsFiniteSet(Sending(p)) /\ Cardinality(Sending(p)) \in Nat
        /\ Cardinality(Sending(p)) <= Cardinality(Calls) /\ Cardinality(Calls) \in Nat
    BY Counts, AccountsAssumption DEF AccountsAssumption, Capped
  <1>2. Typed'
    BY TypedNext
  <1>3. /\ IsFiniteSet(Sending(p)') /\ Cardinality(Sending(p)') \in Nat
        /\ Cardinality(Sending(p)') <= Cardinality(Calls)
    <2>1. Sending(p)' \subseteq Calls
      BY DEF Sending
    <2>2. QED
      BY <2>1, FS_Subset, FS_CardinalityType, AccountsAssumption DEF AccountsAssumption
  <1>4. ASSUME NEW spent, NEW guessed, CodeRows(spent, guessed, 0)
        PROVE  SentTo(p)' = SentTo(p)
    <2>1. DOMAIN codes' = DOMAIN codes
      BY <1>4, Lengths DEF Typed, CodeRows
    <2>2. QED
      BY <1>4, <2>1 DEF SentTo, CodeRows
  <1>5. ASSUME SentTo(p)' = SentTo(p), Sending(p)' \subseteq Sending(p)
        PROVE  CapHolds(p)'
    <2>1. Cardinality(Sending(p)') <= Cardinality(Sending(p))
      BY <1>1, <1>5, FS_Subset
    <2>2. Cardinality(SentTo(p)') + Cardinality(Sending(p)') < DailyCap + Cardinality(Calls)
      BY <1>1, <1>3, <1>5, <2>1 DEF CapHolds
    <2>3. QED
      BY <2>2 DEF CapHolds
  <1>6. ASSUME NEW c \in Calls, call'[c] = Idle, \A b \in Calls : b = c \/ call'[b] = call[b]
        PROVE  Sending(p)' = Sending(p) \ {c}
    BY <1>6 DEF Sending, Idle
  <1>7. ASSUME NEW c \in Calls, NEW x \in Call, Begun(c, x)
        PROVE  CapHolds(p)'
    <2>1. SentTo(p)' = SentTo(p)
      BY <1>7 DEF Begun, SentTo
    <2>2. call'[c] = x /\ \A b \in Calls : b = c \/ call'[b] = call[b]
      BY <1>7 DEF Begun, Begin, Typed, TypeOK
    <2>3. CASE x.op = "send" /\ x.phone = p
      <3>1. Cardinality(SentTo(p)) < DailyCap
        BY <1>7, <2>3 DEF Begun, UnderCap
      <3>2. Cardinality(SentTo(p)') + Cardinality(Sending(p)') < DailyCap + Cardinality(Calls)
        BY <1>1, <1>3, <2>1, <3>1
      <3>3. QED
        BY <3>2 DEF CapHolds
    <2>4. CASE ~(x.op = "send" /\ x.phone = p)
      <3>1. Sending(p)' \subseteq Sending(p)
        BY <2>2, <2>4 DEF Sending
      <3>2. QED
        BY <1>5, <2>1, <3>1
    <2>5. QED
      BY <2>3, <2>4
  <1>8. ASSUME NEW c \in Calls, SendInsert(c)
        PROVE  CapHolds(p)'
    <2>1. Sending(p)' = Sending(p) \ {c}
      BY <1>6, <1>8, CommitOthers DEF Commit
    <2>2. CodeRows({}, {}, 1) /\ codes'[Len(codes) + 1].phone = call[c].phone
      BY <1>8, SendInsertRows DEF Typed
    <2>3. Len(codes) \in Nat /\ DOMAIN codes = 1..Len(codes)
      BY Lengths DEF Typed
    <2>4. CASE call[c].phone = p
      <3>1. SentTo(p)' = SentTo(p) \cup {Len(codes) + 1}
        BY <2>2, <2>3, <2>4 DEF SentTo, CodeRows
      <3>2. Len(codes) + 1 \notin SentTo(p)
        BY <2>3 DEF SentTo
      <3>3. Cardinality(SentTo(p)') = Cardinality(SentTo(p)) + 1
        BY <1>1, <3>1, <3>2, FS_AddElement
      <3>4. c \in Sending(p)
        BY <1>8, <2>4 DEF SendInsert, End, Sending
      <3>5. Cardinality(Sending(p)') = Cardinality(Sending(p)) - 1
        BY <1>1, <2>1, <3>4, FS_RemoveElement
      <3>6. Cardinality(SentTo(p)') + Cardinality(Sending(p)') < DailyCap + Cardinality(Calls)
        BY <1>1, <3>3, <3>5 DEF CapHolds
      <3>7. QED
        BY <3>6 DEF CapHolds
    <2>5. CASE call[c].phone # p
      <3>1. SentTo(p)' = SentTo(p)
        BY <2>2, <2>3, <2>5 DEF SentTo, CodeRows
      <3>2. QED
        BY <1>5, <2>1, <3>1
    <2>6. QED
      BY <2>4, <2>5
  <1>9. ASSUME NEW c \in Calls, Commit(c), ~SendInsert(c)
        PROVE  CapHolds(p)'
    <2>1. \E spent, guessed : CodeRows(spent, guessed, 0)
      BY <1>9, CallRows DEF Commit, Rows
    <2>2. Sending(p)' \subseteq Sending(p)
      BY <1>6, <1>9, CommitOthers
    <2>3. QED
      BY <1>4, <1>5, <2>1, <2>2
  <1>10. CASE Statement
    <2>1. \E spent, guessed : CodeRows(spent, guessed, 0)
      BY <1>10, OtherRows DEF Statement, Rows
    <2>2. Sending(p)' \subseteq Sending(p)
      BY <1>10, StatementGrows DEF Sending
    <2>3. QED
      BY <1>4, <1>5, <2>1, <2>2
  <1>11. CASE UNCHANGED vars
    BY <1>5, <1>11 DEF vars, SentTo, Sending
  <1>12. QED
    BY <1>7, <1>8, <1>9, <1>10, <1>11, Steps

\* Sends checked at the same time pass the daily ceiling by less than their number.
THEOREM SendsStayBounded == Spec => []SendsBounded
  <1>1. Init => Capped
    <2>1. SUFFICES ASSUME Init, DailyCap > 0, NEW p \in Phones PROVE CapHolds(p)
      BY DEF Capped
    <2>2. SentTo(p) = {} /\ Sending(p) = {}
      BY <2>1 DEF Init, SentTo, Sending, Idle
    <2>3. Cardinality(Calls) \in Nat /\ DailyCap \in Nat
      BY FS_CardinalityType, AccountsAssumption DEF AccountsAssumption
    <2>4. QED
      BY <2>1, <2>2, <2>3, FS_EmptySet DEF CapHolds
  <1>2. Locking /\ Capped => SendsBounded
    <2>1. SUFFICES ASSUME Locking, Capped, DailyCap > 0, NEW p \in Phones
                   PROVE  Cardinality(SentTo(p)) < DailyCap + Cardinality(Calls)
      BY DEF SendsBounded
    <2>2. CapHolds(p)
      BY <2>1 DEF Capped
    <2>3. QED
      BY <2>1, <2>2, Counts, AccountsAssumption DEF AccountsAssumption, CapHolds, Locking
  <1>3. QED
    BY <1>1, <1>2, CappedNext, LockingInv, PTL DEF Spec

=============================================================================
