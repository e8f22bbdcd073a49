------------------------------ MODULE Sessions ------------------------------
(***************************************************************************)
(* Clients that do not know whether a write has landed and send it again,  *)
(* and the session table that tells the copies from new requests: Sessions *)
(* and Client of rsm/client.py over the machine of rsm/machine.py.         *)
(*                                                                         *)
(* Every replica runs the committed log through a table and a machine of   *)
(* its own.  The log is what RaftProperties!ImplementsCommitLog makes of a *)
(* cluster: each copy that is sent may be committed once, late, in another *)
(* order, or never.  A replica that restarts runs the log again.           *)
(***************************************************************************)
EXTENDS Machine, Sequences, FiniteSets

CONSTANTS
  Replica,
  Key,           \* bound: the requests, as Request.key names them: client and number
  Wish,          \* the commands that a client may ask for
  MaxCopies,     \* bound: times one request is sent
  MaxLog,        \* bound: committed requests, copies included
  MaxUpsets      \* bound: restarts and forgotten clients in a run

Client == {k[1] : k \in Key}

\* A missing key is told from whatever a key may hold or a client be told, and a client
\* asks for what the machine knows and adds nothing but numbers.
SessionsConstants ==
  /\ Absent \notin {None, Refused, Yes, No} \cup Random \cup Int
  /\ None \notin Wish
  /\ \A cmd \in Wish :
       /\ cmd.name \in {SET, DELETE, INCREMENT, COMPARE_AND_SET, NOW}
       /\ cmd.value # Absent
       /\ cmd.name = INCREMENT => cmd.value \in Int \cup {None}

VARIABLES
  command,   \* the command of each request; None before it is asked
  sent,      \* how often each request has been proposed
  chosen,    \* the keys of the committed requests, in order
  place,     \* how much of the log each replica has run
  held,      \* what its machine holds
  answers,   \* what its table remembers of each request; Absent if nothing
  restarts, forgets

\* History, which no action reads.
VARIABLES
  took,      \* the requests that took effect on each replica, in order
  told       \* what clients have been told of which request

replicaVars == <<place, held, answers, took>>
vars == <<command, sent, chosen, replicaVars, told, restarts, forgets>>

Asked(k) == command[k] # None

\* Client.next_request and the first send: sequence numbers have no gaps.
Ask(k, cmd) ==
  /\ ~Asked(k)
  /\ \A x \in Key : (x[1] = k[1] /\ x[2] < k[2]) => Asked(x)
  /\ command' = [command EXCEPT ![k] = cmd]
  /\ sent' = [sent EXCEPT ![k] = 1]
  /\ UNCHANGED <<chosen, replicaVars, told, restarts, forgets>>

\* Client.retry, of a request that nothing was heard of, or not yet.
Retry(k) ==
  /\ Asked(k) /\ sent[k] < MaxCopies
  /\ sent' = [sent EXCEPT ![k] = @ + 1]
  /\ UNCHANGED <<command, chosen, replicaVars, told, restarts, forgets>>

\* The cluster commits one more of the copies that were sent.
Commit(k) ==
  /\ Len(chosen) < MaxLog
  /\ Cardinality({i \in DOMAIN chosen : chosen[i] = k}) < sent[k]
  /\ chosen' = Append(chosen, k)
  /\ UNCHANGED <<command, sent, replicaVars, told, restarts, forgets>>

\* The table keeps a high water mark for each client.
WrongSeen(r, k) ==
  \E x \in Key : x[1] = k[1] /\ x[2] >= k[2] /\ answers[r][x] # Absent

\* Sessions.seen.
Seen(r, k) == answers[r][k] # Absent

\* A repeat is told what the key holds by now.
WrongRemembered(r, k) == Get(held[r])

Remembered(r, k) == answers[r][k]

\* Sessions.run of the next committed request.  A repeat is answered from memory.
\* A refusal leaves the machine as an exception before the table remembers it.
Run(r) ==
  LET k == chosen[place[r] + 1] IN
  /\ place[r] < Len(chosen)
  /\ place' = [place EXCEPT ![r] = @ + 1]
  /\ IF Seen(r, k)
     THEN /\ told' = told \cup {<<k, Remembered(r, k)>>}
          /\ UNCHANGED <<held, answers, took>>
     ELSE \E result \in Apply(held[r], command[k]) :
            /\ told' = told \cup {<<k, result.out>>}
            /\ held' = [held EXCEPT ![r] = result.held]
            /\ IF result.out = Refused
               THEN UNCHANGED <<answers, took>>
               ELSE /\ answers' = [answers EXCEPT ![r][k] = result.out]
                    /\ took' = [took EXCEPT ![r] = Append(@, k)]
  /\ UNCHANGED <<command, sent, chosen, restarts, forgets>>

\* A replica comes back with its log and nothing else.
Restart(r) ==
  /\ restarts + forgets < MaxUpsets
  /\ restarts' = restarts + 1
  /\ place' = [place EXCEPT ![r] = 0]
  /\ held' = [held EXCEPT ![r] = Absent]
  /\ answers' = [answers EXCEPT ![r] = [k \in Key |-> Absent]]
  /\ took' = [took EXCEPT ![r] = << >>]
  /\ UNCHANGED <<command, sent, chosen, told, forgets>>

\* Sessions.forget: one replica's table drops everything of a client.
Forget(r, c) ==
  /\ restarts + forgets < MaxUpsets
  /\ forgets' = forgets + 1
  /\ answers' = [answers EXCEPT ![r] =
                   [k \in Key |-> IF k[1] = c THEN Absent ELSE answers[r][k]]]
  /\ UNCHANGED <<command, sent, chosen, place, held, took, told, restarts>>

Init ==
  /\ command = [k \in Key |-> None]
  /\ sent = [k \in Key |-> 0]
  /\ chosen = << >>
  /\ place = [r \in Replica |-> 0]
  /\ held = [r \in Replica |-> Absent]
  /\ answers = [r \in Replica |-> [k \in Key |-> Absent]]
  /\ took = [r \in Replica |-> << >>]
  /\ told = {}
  /\ restarts = 0 /\ forgets = 0

Next ==
  \/ \E k \in Key : (\E cmd \in Wish : Ask(k, cmd)) \/ Retry(k) \/ Commit(k)
  \/ \E r \in Replica : Run(r) \/ Restart(r) \/ \E c \in Client : Forget(r, c)

Spec == Init /\ [][Next]_vars

-----------------------------------------------------------------------------

\* A request takes effect exactly once on a machine that has run it, however often it
\* is sent and committed, unless the machine refused it.  This is what the table of
\* client.py is for, which must tell a repeat from another client's request and from
\* one that comes after a later one; it holds as long as nothing has been dropped from
\* a table.
TakesEffectOnce ==
  forgets = 0 =>
    \A r \in Replica :
      /\ \A i, j \in DOMAIN took[r] : took[r][i] = took[r][j] => i = j
      /\ \A i \in 1..place[r] :
           \/ \E j \in DOMAIN took[r] : took[r][j] = chosen[i]
           \/ <<chosen[i], Refused>> \in told

\* Whichever replica answers whichever copy, a client is told of a request what its
\* one application gave, and not what the key holds by now; and the replicas take the
\* requests in one order, after a restart too.  Two things are outside: a command that
\* is not a function of the state, which machine.py has to show the harm of, and a
\* refusal, which the table does not remember.
AnswerStands ==
  (forgets = 0 /\ \A k \in Key : Asked(k) => command[k].name # NOW) =>
    /\ \A x, y \in told : (x[1] = y[1] /\ Refused \notin {x[2], y[2]}) => x[2] = y[2]
    /\ \A r, s \in Replica : \A i \in DOMAIN took[r] \cap DOMAIN took[s] :
         took[r][i] = took[s][i]
=============================================================================
