------------------------------ MODULE VisitNews ------------------------------
(***************************************************************************)
(* What the outbox promises a customer about his visits, without processes, *)
(* claims, retries or crashes: every change of a visit is one piece of news, *)
(* settled at most once; only news worth telling reaches anybody, each      *)
(* account once; and a phone rings once, for what its account was told.     *)
(***************************************************************************)
EXTENDS Naturals, Sequences

CONSTANTS Visits, Accounts, Ids

VARIABLES
    status,     \* where each visit stands
    news,       \* the changes, in their order
    told,       \* how often an account was told of a change
    rung        \* how often its phone rang for it

newsVars == <<status, news, told, rung>>

Finished == {"completed", "closed"}
Worked == {"ended"} \cup Finished

\* A visit that was cancelled stays so; one that was worked on stays worked on.
Follows(from, to) ==
    \/ from = "none" /\ to \in {"scheduled", "in_progress"}
    \/ from = "scheduled" /\ to \in {"in_progress", "cancelled"}
    \/ from = "in_progress" /\ to = "ended"
    \/ from \in Worked /\ to \in Worked

WorthTelling(from, to) ==
    to \in {"scheduled", "cancelled"} \/ (to \in Finished /\ from \notin Finished)

NewsInit ==
    /\ status = [v \in Visits |-> "none"]
    /\ news = <<>>
    /\ told = [n \in Ids \X Accounts |-> 0]
    /\ rung = [n \in Ids \X Accounts |-> 0]

Change(v, to) ==
    /\ status[v] # to
    /\ Follows(status[v], to)
    /\ status' = [status EXCEPT ![v] = to]
    /\ news' = Append(news, [visit |-> v, from |-> status[v], to |-> to, settled |-> FALSE])
    /\ UNCHANGED <<told, rung>>

Tell(i, recipients) ==
    /\ i \in DOMAIN news
    /\ ~news[i].settled
    /\ recipients # {} => WorthTelling(news[i].from, news[i].to)
    /\ news' = [news EXCEPT ![i].settled = TRUE]
    /\ told' = [n \in Ids \X Accounts |->
                  IF n[1] = i /\ n[2] \in recipients THEN 1 ELSE told[n]]
    /\ UNCHANGED <<status, rung>>

Ring(i, a) ==
    /\ told[<<i, a>>] = 1
    /\ rung[<<i, a>>] = 0
    /\ rung' = [rung EXCEPT ![<<i, a>>] = 1]
    /\ UNCHANGED <<status, news, told>>

NewsNext ==
    \/ \E v \in Visits, to \in Worked \cup {"scheduled", "in_progress", "cancelled"} :
           Change(v, to)
    \/ \E i \in Ids, recipients \in SUBSET Accounts : Tell(i, recipients)
    \/ \E i \in Ids, a \in Accounts : Ring(i, a)

NewsSpec == NewsInit /\ [][NewsNext]_newsVars
=============================================================================
