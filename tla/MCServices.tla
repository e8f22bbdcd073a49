----------------------------- MODULE MCServices -----------------------------
(***************************************************************************)
(* Small instances of the services.                                        *)
(***************************************************************************)
EXTENDS Services, TLC

CONSTANTS text, drawn1, drawn2, r1, r2, c1, c2, n1, n2, n3, n4, a, b, w1, w2, k1, k2

Command(name, value, expected) == [name |-> name, value |-> value, expected |-> expected]

Requests == {<<c1, 1>>, <<c1, 2>>, <<c2, 1>>}

Wishes == {Command("increment", 1, None), Command("set", text, None),
           Command("now", None, None)}

Log(terms) ==
  [base |-> 0, baseTerm |-> 0, entries |-> [i \in DOMAIN terms |-> [term |-> terms[i]]]]

\* Two leaders whose logs part at their second entry.
PartingLogs == <<Log(<<1, 1>>), Log(<<1, 2>>)>>

\* One way at one node, and at one link.
OneWayCuts == {[node |-> n1, direction |-> "inbound", peer |-> Anyone],
               [node |-> n1, direction |-> "outbound", peer |-> n2]}

SteadyOrSpread == {<<1, 1>>, <<1, 3>>}

\* An initial state, and one in particular for a component that stays there.
MCInit ==
  /\ part \in Parts
  /\ Ses!Init
  /\ Lea!Init /\ (part # "lease" => length = 5 /\ drift = 0)
  /\ Mem!Init /\ (part # "membership" =>
                  kind = "roster" /\ \A u \in use : u.config.members = {n1, n2, n3, n4})
  /\ Per!Init /\ (part # "persist" =>
                  durable = {"term", "log"} /\ order = Per!WRITE_FIRST)
  /\ Reb!Init /\ (part # "rebalance" => every = 1 /\ copyTicks = 0 /\ ~unsafe)
  /\ Exp!Init /\ (part # "expiry" => ~byClock /\ grantEvery = 1 /\ skew = 1 /\ sweep = 1)
  /\ Wat!Init /\ (part # "watch" => wanted = [w \in {w1, w2} |-> All])
  /\ Net!Init /\ (part # "network" => conditions = <<1, 1>>)

MCSpec == MCInit /\ [][Next]_vars

\* Replicas, candidates, watchers and what a random number may be are interchangeable;
\* no liveness is checked.
Symm == Permutations({r1, r2}) \cup Permutations({a, b}) \cup Permutations({w1, w2})
          \cup Permutations({drawn1, drawn2})
=============================================================================
