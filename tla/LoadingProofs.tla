---------------------------- MODULE LoadingProofs ----------------------------
(***************************************************************************)
(* Proofs about Loading, for any number of agents and keys: calls never    *)
(* undo later writes, nobody joins a stale load, the table of calls is     *)
(* sound and what is loaded is cached.                                     *)
(*                                                                         *)
(* The properties speak of the history (what a write has made obsolete);   *)
(* the inductive invariant ties it to the program: a registered call is    *)
(* not obsolete, an agent at the end of a call holds the bucket of its     *)
(* key, and a call that has left the table without being finished was      *)
(* cancelled by somebody who will still say so.                            *)
(***************************************************************************)
EXTENDS Loading, Sequences, TLAPS

\* A panic of a bulk loader ends the goroutine of a bulk refresh; a recovered one
\* would leave calls without an owner.
NoSurvivedPanic == \A s \in Scenarios : "bulkRefresh" \in s.ops => "panic" \notin s.outcomes

Labels == {"off", "lookup", "startCall", "insert", "load", "finish", "deleteCall", "deregister",
           "update", "cancel", "wait", "lock", "dropCall", "write", "done"}

Finishing == {"finish", "deleteCall", "deregister", "update", "cancel"}

--------------------------------------------------------------------------------
(* The inductive invariant *)

\* What an agent runs fits where it is.
Roles ==
    \A a \in Agents :
        /\ pc[a] = "off" => op[a] = "none" /\ joined[a] = {}
        /\ pc[a] \in {"lookup", "startCall", "insert", "load", "wait"} \cup Finishing => op[a] \in Loads
        /\ pc[a] \in {"lock", "dropCall", "write"} => op[a] \in Writes
        /\ op[a] # "none" => op[a] \in scenario.ops

\* The key an agent is at is one it has to deal with.
AtKey ==
    \A a \in Agents :
        /\ pc[a] \in {"update", "lock", "dropCall", "write"} => current[a] \in Keys
        /\ pc[a] = "insert" => current[a] \in todo[a]
        /\ pc[a] \in {"deleteCall", "deregister", "cancel"} => current[a] \in batch[a]
        /\ pc[a] \notin Finishing => batch[a] = {}

\* The end of a call, and a write, happen in the bucket of the key.
BucketHeld ==
    \A a \in Agents :
        pc[a] \in {"deleteCall", "deregister", "update", "dropCall", "write"} =>
            bucket[current[a]] = a

\* An agent has a call for a key from its registration on, and it is unfinished
\* exactly while its owner has it to load or to finish.
CallsRecorded ==
    /\ finished \subseteq calls
    /\ \A a \in Agents, k \in Keys :
        /\ op[a] \notin Loads \/ pc[a] = "lookup" => <<a, k>> \notin calls
        /\ pc[a] \in {"startCall", "insert"} /\ k \in todo[a] => <<a, k>> \notin calls
        /\ <<a, k>> \in calls \ finished <=> k \in owned[a] \cup batch[a]
        /\ registered[k] = a => <<a, k>> \in calls \ finished
    /\ \A b \in Agents : joined[b] \subseteq calls

\* The loader has been run for the calls to finish, and not for those to load.
Outcomes ==
    \A a \in Agents, k \in Keys :
        /\ outcome[<<a, k>>] # "none" => <<a, k>> \in calls
        /\ k \in owned[a] => outcome[<<a, k>>] = "none"
        /\ k \in batch[a] => outcome[<<a, k>>] # "none"
        /\ outcome[<<a, k>>] = "panic" => "panic" \in scenario.outcomes

\* Nothing is left to load when an agent waits for others or returns; only a bulk
\* refresh loads twice.
NothingLeft ==
    \A a \in Agents :
        /\ pc[a] \in {"wait", "done"} => owned[a] = {}
        /\ pc[a] \in Finishing /\ op[a] # "bulkRefresh" => owned[a] = {}

\* What the answer of deleteCall means: a call that counts as correct was still in
\* the table, so it is not obsolete, and it has left the table.
Deregistering ==
    \A a \in Agents :
        /\ pc[a] = "deleteCall" => ~correct[a]
        /\ pc[a] = "deregister" => registered[current[a]] = a
        /\ pc[a] \in {"update", "cancel"} /\ current[a] \in batch[a] => registered[current[a]] # a
        /\ pc[a] = "update" /\ correct[a] /\ current[a] \in batch[a] => <<a, current[a]>> \notin superseded

\* A writer has seen calls of its key, and none of those is registered when it writes.
SeenSound ==
    \A w \in Agents :
        /\ seen[w] \subseteq calls
        /\ seen[w] # {} => pc[w] \in {"write", "done"} /\ \A c \in seen[w] : c[2] = current[w]
        /\ pc[w] = "write" => <<registered[current[w]], current[w]>> \notin seen[w]

\* An obsolete call is not registered any more.
SupersededSound ==
    /\ superseded \subseteq calls
    /\ \A a \in Agents : behind[a] \subseteq superseded
    /\ \A k \in Keys : <<registered[k], k>> \notin superseded

\* A call whose loader has not returned is registered, or a writer has cancelled it.
OpenRegistered ==
    \A a \in Agents, k \in Keys :
        <<a, k>> \in calls /\ outcome[<<a, k>>] = "none" =>
            \/ registered[k] = a
            \/ \E w \in Agents : pc[w] \in {"write", "done"} /\ <<a, k>> \in seen[w]

\* Its owner has still to find out what has become of the call.
Unsettled(a, k) ==
    /\ k \in owned[a] \cup batch[a]
    /\ ~(pc[a] = "cancel" /\ current[a] = k)

\* Why a call is not registered any more: its value is in the map or about to be
\* put there, the key has been written, an eviction has cancelled the call or a
\* writer has and is about to write, or the call has no value.
Dropped ==
    \A a \in Agents, k \in Keys :
        <<a, k>> \in calls /\ registered[k] # a =>
            \/ <<a, k>> \in installed \cup overtaken
            \/ pc[a] = "update" /\ correct[a] /\ current[a] = k /\ k \in batch[a]
            \/ \E w \in Agents : op[w] = "evict" /\ <<a, k>> \in seen[w]
            \/ \E w \in Agents : pc[w] = "write" /\ <<a, k>> \in seen[w] /\ Unsettled(a, k)
            \/ outcome[<<a, k>>] \notin {"none", "value"}

\* Only a bulk loader returns extra keys, and where it may; what is put into the map is
\* for a key of the batch or one of them.
ExtrasSound ==
    \A a \in Agents :
        /\ extras[a] # {} => IsBulk(a) /\ scenario.extras
        /\ pc[a] = "update" => current[a] \in batch[a] \cup extras[a]

Inv ==
    /\ TypeOK /\ Roles /\ AtKey /\ ExtrasSound /\ BucketHeld /\ CallsRecorded /\ Outcomes /\ Deregistering
    /\ SeenSound /\ SupersededSound /\ OpenRegistered /\ Dropped /\ NoStaleChange /\ NoStaleJoin

USE LoadingAssumption DEF Goto, Free, CallsOf, Loads, Writes, Calls, Nodes, NoNode,
    Refreshes, IsBulk, tables, locals, history, vars, Finishing

--------------------------------------------------------------------------------
(* What the longer actions do, agent by agent *)

\* The effect of Insert on each agent: it joins a call, or adds one.
InsertDoes(a) ==
    /\ current[a] \in todo[a] /\ current[a] \in Keys /\ <<a, current[a]>> \notin calls
    /\ pc[a] = "insert"
    /\ pc'[a] \in {"startCall", "load", "wait"}
    /\ pc'[a] = "wait" => owned'[a] = {}
    /\ todo'[a] = todo[a] \ {current[a]}
    /\ \A b \in Agents \ {a} :
          /\ pc'[b] = pc[b] /\ todo'[b] = todo[b]
          /\ owned'[b] = owned[b] /\ joined'[b] = joined[b]
    /\ UNCHANGED <<scenario, cached, bucket, outcome, finished, op, batch, current, correct,
                   installed, author, seen, superseded, overtaken, behind>>
    /\ \/ /\ registered[current[a]] \in Agents
          /\ joined'[a] = joined[a] \cup {<<registered[current[a]], current[a]>>}
          /\ UNCHANGED <<registered, owned, calls>>
       \/ /\ registered[current[a]] = Nobody
          /\ registered'[current[a]] = a
          /\ \A k \in Keys \ {current[a]} : registered'[k] = registered[k]
          /\ owned'[a] = owned[a] \cup {current[a]}
          /\ calls' = calls \cup {<<a, current[a]>>}
          /\ UNCHANGED joined

LEMMA InsertEffect ==
    ASSUME NEW a \in Agents, TypeOK, AtKey, Roles, CallsRecorded, Insert(a) PROVE InsertDoes(a)
<1> USE DEF InsertDoes
<1> DEFINE k == current[a]
<1>1. k \in todo[a] /\ k \in Keys /\ <<a, k>> \notin calls
  BY DEF Insert, AtKey, CallsRecorded, TypeOK
<1>2. CASE Join(a, k)
  <2>1. /\ todo'[a] = todo[a] \ {k}
        /\ pc'[a] \in {"startCall", "load", "wait"}
        /\ pc'[a] = "wait" => owned'[a] = {}
        /\ registered[k] \in Agents
        /\ joined'[a] = joined[a] \cup {<<registered[k], k>>}
        /\ \A b \in Agents \ {a} :
              /\ pc'[b] = pc[b] /\ todo'[b] = todo[b]
              /\ owned'[b] = owned[b] /\ joined'[b] = joined[b]
    BY <1>1, <1>2 DEF Join, KeyStarted, TypeOK
  <2>2. QED
    BY <1>1, <1>2, <2>1 DEF Insert, Join
<1>3. CASE ~Join(a, k)
  <2>1. /\ registered[k] = Nobody
        /\ registered' = [registered EXCEPT ![k] = a]
        /\ owned' = [owned EXCEPT ![a] = @ \cup {k}]
        /\ calls' = calls \cup {<<a, k>>}
        /\ KeyStarted(a, k, owned[a] \cup {k})
        /\ UNCHANGED joined
    BY <1>3 DEF Insert
  <2>2. /\ todo'[a] = todo[a] \ {k}
        /\ pc'[a] \in {"startCall", "load"}
        /\ \A b \in Agents \ {a} :
              /\ pc'[b] = pc[b] /\ todo'[b] = todo[b]
    BY <2>1 DEF KeyStarted, TypeOK
  <2>3. /\ owned'[a] = owned[a] \cup {k}
        /\ registered'[k] = a
        /\ \A l \in Keys \ {k} : registered'[l] = registered[l]
        /\ \A b \in Agents \ {a} : owned'[b] = owned[b] /\ joined'[b] = joined[b]
    BY <1>1, <2>1 DEF TypeOK
  <2>4. QED
    BY <1>1, <1>3, <2>1, <2>2, <2>3 DEF Insert
<1>4. QED
  BY <1>2, <1>3

\* What StartCall does: it joins a call, or goes on to register one.
StartCallDoes(a) ==
    /\ pc[a] = "startCall"
    /\ pc'[a] \in {"startCall", "load", "wait", "insert"}
    /\ pc'[a] = "wait" => owned[a] = {}
    /\ todo'[a] \subseteq todo[a]
    /\ joined'[a] # joined[a] =>
          \E k \in todo[a] : /\ registered[k] \in Agents
                             /\ joined'[a] = joined[a] \cup {<<registered[k], k>>}
    /\ pc'[a] = "insert" => current'[a] \in todo'[a]
    /\ \A b \in Agents \ {a} :
          /\ pc'[b] = pc[b] /\ todo'[b] = todo[b]
          /\ current'[b] = current[b] /\ joined'[b] = joined[b]
    /\ UNCHANGED <<scenario, cached, bucket, registered, outcome, finished, op, owned, batch, correct,
                   calls, installed, author, seen, superseded, overtaken, behind>>

LEMMA StartCallEffect ==
    ASSUME NEW a \in Agents, TypeOK, StartCall(a) PROVE StartCallDoes(a)
<1> USE DEF StartCallDoes
<1>1. PICK k \in todo[a] :
         /\ current' = [current EXCEPT ![a] = k]
         /\ \/ Join(a, k)
            \/ /\ registered[k] = Nobody
               /\ Goto(a, "insert")
               /\ UNCHANGED <<registered, joined, todo, owned, calls>>
  BY DEF StartCall
<1>2. k \in Keys /\ current'[a] = k /\ \A b \in Agents \ {a} : current'[b] = current[b]
  BY <1>1 DEF TypeOK
<1>3. CASE Join(a, k)
  <2>1. /\ todo'[a] \subseteq todo[a]
        /\ pc'[a] \in {"startCall", "load", "wait"}
        /\ pc'[a] = "wait" => owned[a] = {}
        /\ registered[k] \in Agents
        /\ joined'[a] = joined[a] \cup {<<registered[k], k>>}
        /\ \A b \in Agents \ {a} :
              /\ pc'[b] = pc[b] /\ todo'[b] = todo[b] /\ joined'[b] = joined[b]
    BY <1>2, <1>3 DEF Join, KeyStarted, TypeOK
  <2>2. QED
    BY <1>2, <1>3, <2>1 DEF StartCall, Join
<1>4. CASE ~Join(a, k)
  <2>1. pc' = [pc EXCEPT ![a] = "insert"] /\ UNCHANGED <<registered, joined, todo, owned, calls>>
    BY <1>1, <1>4
  <2>2. pc'[a] = "insert" /\ \A b \in Agents \ {a} : pc'[b] = pc[b]
    BY <2>1 DEF TypeOK
  <2>3. QED
    BY <1>1, <1>2, <2>1, <2>2 DEF StartCall
<1>5. QED
  BY <1>3, <1>4

\* What Load does: the calls that were owned and have been loaded have an outcome.
LoadDoes(a) ==
    /\ ToLoad(a) \subseteq owned[a]
    /\ op[a] # "bulkRefresh" => owned'[a] = {}
    /\ owned'[a] = owned[a] \ ToLoad(a)
    /\ batch'[a] = ToLoad(a)
    /\ pc[a] = "load" /\ pc'[a] = "finish"
    /\ \A b \in Agents \ {a} :
          pc'[b] = pc[b] /\ owned'[b] = owned[b] /\ batch'[b] = batch[b]
    /\ \A k \in ToLoad(a) : /\ outcome'[<<a, k>>] # "none"
                            /\ outcome'[<<a, k>>] = "panic" => "panic" \in scenario.outcomes
    /\ \A b \in Agents, k \in Keys :
         b # a \/ k \notin ToLoad(a) => outcome'[<<b, k>>] = outcome[<<b, k>>]
    /\ UNCHANGED <<scenario, cached, bucket, registered, finished, op, todo, joined, current, correct,
                   calls, installed, author, seen, superseded, overtaken, behind>>

LEMMA LoadEffect ==
    ASSUME NEW a \in Agents, TypeOK, Load(a) PROVE LoadDoes(a)
<1> USE DEF LoadDoes
<1> DEFINE Results == {"value", "notFound", "error", "panic", "missing"}
           Effect(r) == outcome' = [c \in Calls |-> IF c[1] = a /\ c[2] \in ToLoad(a) THEN r[c[2]]
                                                    ELSE outcome[c]]
<1>1. ToLoad(a) \subseteq owned[a] /\ ToLoad(a) \subseteq Keys
  BY DEF ToLoad, TypeOK
<1>2. op[a] # "bulkRefresh" => ToLoad(a) = owned[a]
  BY DEF ToLoad
<1>3. PICK r \in [Keys -> Results] :
         /\ Effect(r)
         /\ \A k \in Keys : r[k] = "panic" => "panic" \in scenario.outcomes
  <2>1. CASE \E r \in scenario.outcomes : Loaded(a, [k \in Keys |-> r], {})
    <3>1. PICK r \in scenario.outcomes : Loaded(a, [k \in Keys |-> r], {})
      BY <2>1
    <3>2. [k \in Keys |-> r] \in [Keys -> Results]
      BY DEF TypeOK
    <3>3. QED
      BY <3>1, <3>2 DEF Loaded
  <2>2. CASE \E R \in SUBSET (IF scenario.extras THEN scenario.keys ELSE ToLoad(a)) :
               Loaded(a, [k \in Keys |-> IF k \in R THEN "value" ELSE "missing"], R \ ToLoad(a))
    <3> DEFINE Bulk(R) == [k \in Keys |-> IF k \in R THEN "value" ELSE "missing"]
    <3>1. PICK R : Loaded(a, Bulk(R), R \ ToLoad(a))
      BY <2>2
    <3>2. Bulk(R) \in [Keys -> Results] /\ \A k \in Keys : Bulk(R)[k] # "panic"
      OBVIOUS
    <3>3. Effect(Bulk(R))
      BY <3>1 DEF Loaded
    <3>4. QED
      BY <3>2, <3>3
  <2>3. QED
    BY <2>1, <2>2 DEF Load
<1>4. \A b \in Agents, k \in Keys :
        outcome'[<<b, k>>] = IF b = a /\ k \in ToLoad(a) THEN r[k] ELSE outcome[<<b, k>>]
  BY <1>3
<1>5. /\ \A k \in ToLoad(a) : /\ outcome'[<<a, k>>] # "none"
                              /\ outcome'[<<a, k>>] = "panic" => "panic" \in scenario.outcomes
      /\ \A b \in Agents, k \in Keys :
            b # a \/ k \notin ToLoad(a) => outcome'[<<b, k>>] = outcome[<<b, k>>]
  BY <1>1, <1>3, <1>4
<1>6. /\ owned'[a] = owned[a] \ ToLoad(a)
      /\ batch'[a] = ToLoad(a)
      /\ pc[a] = "load" /\ pc'[a] = "finish"
      /\ \A b \in Agents \ {a} :
            pc'[b] = pc[b] /\ owned'[b] = owned[b] /\ batch'[b] = batch[b]
  BY DEF Load, TypeOK
<1>7. QED
  BY <1>1, <1>2, <1>5, <1>6 DEF Load

--------------------------------------------------------------------------------
(* Every step keeps the invariant *)

\* Every action keeps the variables in their ranges.
LEMMA TypeStep ==
    ASSUME TypeOK, AtKey, [Next]_vars PROVE TypeOK'
<1> USE DEF TypeOK
<1>1. ASSUME NEW a \in Agents, BeginLoad(a) PROVE TypeOK'
  BY <1>1 DEF BeginLoad
<1>2. ASSUME NEW a \in Agents, BeginWrite(a) PROVE TypeOK'
  BY <1>2 DEF BeginWrite
<1>3. ASSUME NEW a \in Agents, Lookup(a) PROVE TypeOK'
  BY <1>3 DEF Lookup
<1>4. ASSUME NEW a \in Agents, StartCall(a) PROVE TypeOK'
  <2>1. PICK k \in todo[a] :
         /\ current' = [current EXCEPT ![a] = k]
         /\ \/ Join(a, k)
            \/ /\ registered[k] = Nobody
               /\ Goto(a, "insert")
               /\ UNCHANGED <<registered, joined, todo, owned, calls>>
    BY <1>4 DEF StartCall
  <2>2. k \in Keys
    OBVIOUS
  <2>3. CASE Join(a, k)
    <3>1. joined' \in [Agents -> SUBSET Calls]
      BY <2>2, <2>3 DEF Join
    <3>2. todo' \in [Agents -> SUBSET Keys]
      BY <2>2, <2>3 DEF Join, KeyStarted
    <3>3. pc' \in [Agents -> Labels]
      BY <2>2, <2>3 DEF Join, KeyStarted, Labels
    <3>q. QED
      BY <1>4, <2>1, <2>2, <2>3, <3>1, <3>2, <3>3 DEF StartCall, Join, Labels
  <2>4. CASE ~Join(a, k)
      BY <1>4, <2>1, <2>2, <2>4 DEF StartCall
  <2>q. QED
      BY <2>3, <2>4
<1>5. ASSUME NEW a \in Agents, Insert(a) PROVE TypeOK'
  <2> DEFINE k == current[a]
  <2>2. k \in Keys
    <3>1. k \in todo[a]
      BY <1>5 DEF Insert, AtKey
    <3>2. QED
      BY <3>1
  <2> HIDE DEF k
  <2>3. CASE Join(a, k)
    <3>1. joined' \in [Agents -> SUBSET Calls]
      BY <2>2, <2>3 DEF Join
    <3>2. todo' \in [Agents -> SUBSET Keys]
      BY <2>2, <2>3 DEF Join, KeyStarted
    <3>3. pc' \in [Agents -> Labels]
      BY <2>2, <2>3 DEF Join, KeyStarted, Labels
    <3>q. QED
      BY <1>5, <2>2, <2>3, <3>1, <3>2, <3>3 DEF Insert, Join, Labels
  <2>4. CASE ~Join(a, k)
    <3>1. /\ registered' = [registered EXCEPT ![k] = a]
          /\ owned' = [owned EXCEPT ![a] = @ \cup {k}]
          /\ calls' = calls \cup {<<a, k>>}
          /\ KeyStarted(a, k, owned[a] \cup {k})
          /\ UNCHANGED joined
      BY <1>5, <2>4 DEF Insert, k
    <3>2. todo' \in [Agents -> SUBSET Keys]
      BY <2>2, <3>1 DEF KeyStarted
    <3>3. pc' \in [Agents -> Labels]
      BY <2>2, <3>1 DEF KeyStarted, Labels
    <3>4. owned' \in [Agents -> SUBSET Keys]
      BY <2>2, <3>1
    <3>5. registered' \in [Keys -> Agents \cup {Nobody}] /\ calls' \subseteq Calls
      BY <2>2, <3>1
    <3>q. QED
      BY <1>5, <3>1, <3>2, <3>3, <3>4, <3>5 DEF Insert, Labels
  <2>q. QED
      BY <2>3, <2>4
<1>6. ASSUME NEW a \in Agents, Load(a) PROVE TypeOK'
  <2>1. ToLoad(a) \subseteq Keys
    BY DEF ToLoad
  <2>2. /\ outcome' \in [Calls -> {"none", "value", "notFound", "missing", "error", "panic"}]
        /\ extras' \in [Agents -> SUBSET Keys]
    <3>1. CASE \E r \in scenario.outcomes :
            /\ IsBulk(a) => r \in {"error", "panic"}
            /\ Loaded(a, [k \in Keys |-> r], {})
      BY <2>1, <3>1 DEF Loaded
    <3>2. CASE \E R \in SUBSET (IF scenario.extras THEN scenario.keys ELSE ToLoad(a)) :
               Loaded(a, [k \in Keys |-> IF k \in R THEN "value" ELSE "missing"], R \ ToLoad(a))
      BY <2>1, <3>2 DEF Loaded
    <3>3. QED
      BY <1>6, <3>1, <3>2 DEF Load
  <2>3. QED
    BY <1>6, <2>1, <2>2 DEF Load
<1>7. ASSUME NEW a \in Agents, EndLoad(a) PROVE TypeOK'
  BY <1>7 DEF EndLoad
<1>8. ASSUME NEW a \in Agents, DeleteCall(a) PROVE TypeOK'
  BY <1>8 DEF DeleteCall
<1>9. ASSUME NEW a \in Agents, Wait(a) PROVE TypeOK'
  BY <1>9 DEF Wait
<1>10. ASSUME NEW a \in Agents, Finish(a) PROVE TypeOK'
  BY <1>10 DEF Finish
<1>11. ASSUME NEW a \in Agents, Deregister(a) PROVE TypeOK'
  BY <1>11 DEF Deregister
<1>12. ASSUME NEW a \in Agents, Update(a) PROVE TypeOK'
  <2> DEFINE k == current[a]
             n == Result(a, k)
  <2>1. k \in Keys /\ a \in Agents
    BY <1>12 DEF Update, AtKey
  <2>2. n \in Nodes \cup {NoNode}
    BY <2>1 DEF Result
  <2> HIDE DEF n
  <2>3. /\ cached' = [cached EXCEPT ![k] = n]
        /\ bucket' = [bucket EXCEPT ![k] = Nobody]
        /\ extras' = [extras EXCEPT ![a] = @ \ {k}]
        /\ installed' \in {installed, installed \cup {<<a, k>>}}
        /\ author' \in {author, [author EXCEPT ![k] = <<a, k \notin batch[a]>>]}
    BY <1>12 DEF Update, n
  <2>4. /\ cached' \in [Keys -> Nodes \cup {NoNode}]
        /\ bucket' \in [Keys -> Agents \cup {Nobody}]
        /\ installed' \subseteq Calls
    BY <2>1, <2>2, <2>3
  <2>5. author' \in [Keys -> Nodes \cup {NoNode}]
    <3>1. <<a, k \notin batch[a]>> \in Nodes
      BY <2>1
    <3> HIDE DEF Nodes, NoNode
    <3>2. CASE author' = author
      BY <3>2
    <3>3. CASE author' = [author EXCEPT ![k] = <<a, k \notin batch[a]>>]
      BY <2>1, <3>1, <3>3
    <3>4. QED
      BY <2>3, <3>2, <3>3
  <2>6. extras' \in [Agents -> SUBSET Keys]
    BY <2>1, <2>3
  <2>7. pc' \in [Agents -> Labels]
    BY <1>12 DEF Update, Labels
  <2>8. QED
    BY <1>12, <2>4, <2>5, <2>6, <2>7 DEF Update, Labels
<1>13. ASSUME NEW a \in Agents, Cancel(a) PROVE TypeOK'
  BY <1>13 DEF Cancel, AtKey
<1>14. ASSUME NEW a \in Agents, Lock(a) PROVE TypeOK'
  BY <1>14 DEF Lock
<1>15. ASSUME NEW a \in Agents, DropCall(a) PROVE TypeOK'
  BY <1>15 DEF DropCall
<1>16. ASSUME NEW a \in Agents, Write(a) PROVE TypeOK'
  BY <1>16 DEF Write
<1>17. CASE Terminating \/ UNCHANGED vars
  BY <1>17 DEF Terminating
<1>18. QED
  BY <1>1, <1>2, <1>3, <1>4, <1>5, <1>6, <1>7, <1>8, <1>9,
     <1>10, <1>11, <1>12, <1>13, <1>14, <1>15, <1>16, <1>17 DEF Next, AgentStep, LoadStep, WriteStep

\* Every action keeps what an agent runs and where it is in agreement.
LEMMA RolesStep ==
    ASSUME TypeOK, Roles, [Next]_vars
    PROVE  Roles'
<1>1. ASSUME NEW a \in Agents, BeginLoad(a) PROVE Roles'
  BY <1>1 DEF BeginLoad, TypeOK, Roles
<1>2. ASSUME NEW a \in Agents, BeginWrite(a) PROVE Roles'
  BY <1>2 DEF BeginWrite, TypeOK, Roles
<1>3. ASSUME NEW a \in Agents, Lookup(a) PROVE Roles'
  BY <1>3 DEF Lookup, Roles
<1>4. ASSUME NEW a \in Agents, StartCall(a) PROVE Roles'
  BY <1>4 DEF StartCall, Join, KeyStarted, TypeOK, Roles
<1>5. ASSUME NEW a \in Agents, Insert(a) PROVE Roles'
  <2>1. /\ pc[a] = "insert" /\ pc'[a] \in {"startCall", "load", "wait"}
        /\ \A b \in Agents \ {a} : pc'[b] = pc[b] /\ joined'[b] = joined[b]
        /\ UNCHANGED <<scenario, op>>
    BY <1>5 DEF Insert, Join, KeyStarted, TypeOK
  <2>2. QED
    BY <2>1 DEF Roles
<1>6. ASSUME NEW a \in Agents, Load(a) PROVE Roles'
  BY <1>6 DEF Load, Loaded, ToLoad, Roles
<1>7. ASSUME NEW a \in Agents, EndLoad(a) PROVE Roles'
  BY <1>7 DEF EndLoad, Roles
<1>8. ASSUME NEW a \in Agents, DeleteCall(a) PROVE Roles'
  BY <1>8 DEF DeleteCall, Roles
<1>9. ASSUME NEW a \in Agents, Wait(a) PROVE Roles'
  BY <1>9 DEF Wait, Roles
<1>10. ASSUME NEW a \in Agents, Finish(a) PROVE Roles'
  BY <1>10 DEF Finish, Roles
<1>11. ASSUME NEW a \in Agents, Deregister(a) PROVE Roles'
  BY <1>11 DEF Deregister, Roles
<1>12. ASSUME NEW a \in Agents, Update(a) PROVE Roles'
  BY <1>12 DEF Update, Result, Roles
<1>13. ASSUME NEW a \in Agents, Cancel(a) PROVE Roles'
  BY <1>13 DEF Cancel, Roles
<1>14. ASSUME NEW a \in Agents, Lock(a) PROVE Roles'
  BY <1>14 DEF Lock, Roles
<1>15. ASSUME NEW a \in Agents, DropCall(a) PROVE Roles'
  BY <1>15 DEF DropCall, Roles
<1>16. ASSUME NEW a \in Agents, Write(a) PROVE Roles'
  BY <1>16 DEF Write, Roles
<1>17. CASE Terminating \/ UNCHANGED vars
  BY <1>17 DEF Terminating, Roles
<1>18. QED
  BY <1>1, <1>2, <1>3, <1>4, <1>5, <1>6, <1>7, <1>8, <1>9,
     <1>10, <1>11, <1>12, <1>13, <1>14, <1>15, <1>16, <1>17 DEF Next, AgentStep, LoadStep, WriteStep

\* Every action keeps the key an agent is at among those it has to deal with.
LEMMA AtKeyStep ==
    ASSUME TypeOK, AtKey, [Next]_vars
    PROVE  AtKey'
<1>1. ASSUME NEW a \in Agents, BeginLoad(a) PROVE AtKey'
  BY <1>1 DEF BeginLoad, AtKey
<1>2. ASSUME NEW a \in Agents, BeginWrite(a) PROVE AtKey'
  BY <1>2 DEF BeginWrite, TypeOK, AtKey
<1>3. ASSUME NEW a \in Agents, Lookup(a) PROVE AtKey'
  BY <1>3 DEF Lookup, AtKey
<1>4. ASSUME NEW a \in Agents, StartCall(a) PROVE AtKey'
  BY <1>4 DEF StartCall, Join, KeyStarted, TypeOK, AtKey
<1>5. ASSUME NEW a \in Agents, Insert(a) PROVE AtKey'
  BY <1>5 DEF Insert, Join, KeyStarted, TypeOK, AtKey
<1>6. ASSUME NEW a \in Agents, Load(a) PROVE AtKey'
  BY <1>6 DEF Load, Loaded, ToLoad, TypeOK, AtKey
<1>7. ASSUME NEW a \in Agents, EndLoad(a) PROVE AtKey'
  BY <1>7 DEF EndLoad, AtKey
<1>8. ASSUME NEW a \in Agents, DeleteCall(a) PROVE AtKey'
  BY <1>8 DEF DeleteCall, TypeOK, AtKey
<1>9. ASSUME NEW a \in Agents, Wait(a) PROVE AtKey'
  BY <1>9 DEF Wait, AtKey
<1>10. ASSUME NEW a \in Agents, Finish(a) PROVE AtKey'
  BY <1>10 DEF Finish, TypeOK, AtKey
<1>11. ASSUME NEW a \in Agents, Deregister(a) PROVE AtKey'
  BY <1>11 DEF Deregister, TypeOK, AtKey
<1>12. ASSUME NEW a \in Agents, Update(a) PROVE AtKey'
  BY <1>12 DEF Update, Result, AtKey
<1>13. ASSUME NEW a \in Agents, Cancel(a) PROVE AtKey'
  BY <1>13 DEF Cancel, TypeOK, AtKey
<1>14. ASSUME NEW a \in Agents, Lock(a) PROVE AtKey'
  BY <1>14 DEF Lock, AtKey
<1>15. ASSUME NEW a \in Agents, DropCall(a) PROVE AtKey'
  BY <1>15 DEF DropCall, AtKey
<1>16. ASSUME NEW a \in Agents, Write(a) PROVE AtKey'
  BY <1>16 DEF Write, AtKey
<1>17. CASE Terminating \/ UNCHANGED vars
  BY <1>17 DEF Terminating, AtKey
<1>18. QED
  BY <1>1, <1>2, <1>3, <1>4, <1>5, <1>6, <1>7, <1>8, <1>9,
     <1>10, <1>11, <1>12, <1>13, <1>14, <1>15, <1>16, <1>17 DEF Next, AgentStep, LoadStep, WriteStep

\* Only the holder of a bucket gives it back.
LEMMA BucketHeldStep ==
    ASSUME TypeOK, AtKey, BucketHeld, [Next]_vars
    PROVE  BucketHeld'
<1>1. ASSUME NEW a \in Agents, BeginLoad(a) PROVE BucketHeld'
  BY <1>1 DEF BeginLoad, BucketHeld
<1>2. ASSUME NEW a \in Agents, BeginWrite(a) PROVE BucketHeld'
  BY <1>2 DEF BeginWrite, BucketHeld
<1>3. ASSUME NEW a \in Agents, Lookup(a) PROVE BucketHeld'
  BY <1>3 DEF Lookup, BucketHeld
<1>4. ASSUME NEW a \in Agents, StartCall(a) PROVE BucketHeld'
  BY <1>4 DEF StartCall, Join, KeyStarted, TypeOK, BucketHeld
<1>5. ASSUME NEW a \in Agents, Insert(a) PROVE BucketHeld'
  BY <1>5 DEF Insert, Join, KeyStarted, TypeOK, BucketHeld
<1>6. ASSUME NEW a \in Agents, Load(a) PROVE BucketHeld'
  BY <1>6 DEF Load, Loaded, ToLoad, BucketHeld
<1>7. ASSUME NEW a \in Agents, EndLoad(a) PROVE BucketHeld'
  BY <1>7 DEF EndLoad, BucketHeld
<1>8. ASSUME NEW a \in Agents, DeleteCall(a) PROVE BucketHeld'
  BY <1>8 DEF DeleteCall, BucketHeld
<1>9. ASSUME NEW a \in Agents, Wait(a) PROVE BucketHeld'
  BY <1>9 DEF Wait, BucketHeld
<1>10. ASSUME NEW a \in Agents, Finish(a) PROVE BucketHeld'
  BY <1>10 DEF Finish, TypeOK, BucketHeld
<1>11. ASSUME NEW a \in Agents, Deregister(a) PROVE BucketHeld'
  BY <1>11 DEF Deregister, BucketHeld
<1>12. ASSUME NEW a \in Agents, Update(a) PROVE BucketHeld'
  BY <1>12 DEF Update, Result, TypeOK, BucketHeld
<1>13. ASSUME NEW a \in Agents, Cancel(a) PROVE BucketHeld'
  BY <1>13 DEF Cancel, BucketHeld
<1>14. ASSUME NEW a \in Agents, Lock(a) PROVE BucketHeld'
  BY <1>14 DEF Lock, TypeOK, AtKey, BucketHeld
<1>15. ASSUME NEW a \in Agents, DropCall(a) PROVE BucketHeld'
  BY <1>15 DEF DropCall, BucketHeld
<1>16. ASSUME NEW a \in Agents, Write(a) PROVE BucketHeld'
  BY <1>16 DEF Write, TypeOK, BucketHeld
<1>17. CASE Terminating \/ UNCHANGED vars
  BY <1>17 DEF Terminating, BucketHeld
<1>18. QED
  BY <1>1, <1>2, <1>3, <1>4, <1>5, <1>6, <1>7, <1>8, <1>9,
     <1>10, <1>11, <1>12, <1>13, <1>14, <1>15, <1>16, <1>17 DEF Next, AgentStep, LoadStep, WriteStep

\* Insert registers a new call, Load and Cancel move it on, nobody else touches it.
LEMMA CallsRecordedStep ==
    ASSUME TypeOK, Roles, AtKey, Outcomes, Deregistering, CallsRecorded, [Next]_vars
    PROVE  CallsRecorded'
<1>1. ASSUME NEW a \in Agents, BeginLoad(a) PROVE CallsRecorded'
  BY <1>1 DEF BeginLoad, Roles, AtKey, Outcomes, Deregistering, CallsRecorded
<1>2. ASSUME NEW a \in Agents, BeginWrite(a) PROVE CallsRecorded'
  BY <1>2 DEF BeginWrite, Roles, AtKey, Outcomes, Deregistering, CallsRecorded
<1>3. ASSUME NEW a \in Agents, Lookup(a) PROVE CallsRecorded'
  BY <1>3 DEF Lookup, CallsRecorded
<1>4. ASSUME NEW a \in Agents, StartCall(a) PROVE CallsRecorded'
  <2>1. StartCallDoes(a)
    BY <1>4, StartCallEffect
  <2>2. \A b \in Agents : joined'[b] \subseteq calls
    BY SMTT(30), <2>1 DEF CallsRecorded, StartCallDoes, TypeOK
  <2>3. \A b \in Agents, k \in Keys : op[b] \notin Loads \/ pc'[b] = "lookup" => <<b, k>> \notin calls
    BY <2>1 DEF CallsRecorded, StartCallDoes
  <2>4. \A b \in Agents, k \in Keys : pc'[b] \in {"startCall", "insert"} /\ k \in todo'[b] => <<b, k>> \notin calls
    BY <2>1 DEF CallsRecorded, StartCallDoes
  <2>5. QED
    BY <2>1, <2>2, <2>3, <2>4 DEF CallsRecorded, StartCallDoes
<1>5. ASSUME NEW a \in Agents, Insert(a) PROVE CallsRecorded'
  <2>1. InsertDoes(a)
    BY <1>5, InsertEffect
  <2>2. finished \subseteq calls' /\ \A b \in Agents : joined'[b] \subseteq calls'
    BY <2>1 DEF CallsRecorded, InsertDoes, TypeOK
  <2>0. op[a] \in Loads
    BY <2>1 DEF InsertDoes, Roles
  <2>3. \A b \in Agents, k \in Keys : op[b] \notin Loads \/ pc'[b] = "lookup" => <<b, k>> \notin calls'
    BY <2>1, <2>0 DEF CallsRecorded, InsertDoes
  <2>4. \A b \in Agents, k \in Keys : pc'[b] \in {"startCall", "insert"} /\ k \in todo'[b] => <<b, k>> \notin calls'
    BY <2>1 DEF CallsRecorded, InsertDoes
  <2>5. ASSUME NEW b \in Agents, NEW k \in Keys
        PROVE  <<b, k>> \in calls' \ finished <=> k \in owned'[b] \cup batch[b]
    <3>1. CASE b = a /\ k = current[a]
      BY <2>1, <3>1 DEF CallsRecorded, InsertDoes
    <3>2. CASE ~(b = a /\ k = current[a])
      <4>1. /\ <<b, k>> \in calls' <=> <<b, k>> \in calls
            /\ k \in owned'[b] <=> k \in owned[b]
        BY <2>1, <3>2 DEF InsertDoes
      <4>2. QED
        BY <4>1 DEF CallsRecorded
    <3>3. QED
      BY <3>1, <3>2
  <2>6. \A b \in Agents, k \in Keys : registered'[k] = b => <<b, k>> \in calls' \ finished
    BY <2>1 DEF CallsRecorded, InsertDoes
  <2>7. QED
    BY <2>1, <2>2, <2>3, <2>4, <2>5, <2>6 DEF CallsRecorded, InsertDoes
<1>6. ASSUME NEW a \in Agents, Load(a) PROVE CallsRecorded'
  <2>1. LoadDoes(a)
    BY <1>6, LoadEffect
  <2>2. \A b \in Agents, k \in Keys : op[b] \notin Loads \/ pc'[b] = "lookup" => <<b, k>> \notin calls
    BY <2>1 DEF CallsRecorded, LoadDoes
  <2>3. \A b \in Agents, k \in Keys : pc'[b] \in {"startCall", "insert"} /\ k \in todo[b] => <<b, k>> \notin calls
    BY <2>1 DEF CallsRecorded, LoadDoes
  <2>4. \A b \in Agents : owned'[b] \cup batch'[b] = owned[b] \cup batch[b]
    BY <2>1 DEF LoadDoes, AtKey
  <2>5. QED
    BY <2>1, <2>2, <2>3, <2>4 DEF CallsRecorded, LoadDoes
<1>7. ASSUME NEW a \in Agents, EndLoad(a) PROVE CallsRecorded'
  BY <1>7 DEF EndLoad, CallsRecorded
<1>8. ASSUME NEW a \in Agents, DeleteCall(a) PROVE CallsRecorded'
  BY <1>8 DEF DeleteCall, CallsRecorded
<1>9. ASSUME NEW a \in Agents, Wait(a) PROVE CallsRecorded'
  BY <1>9 DEF Wait, CallsRecorded
<1>10. ASSUME NEW a \in Agents, Finish(a) PROVE CallsRecorded'
  BY <1>10 DEF Finish, CallsRecorded
<1>11. ASSUME NEW a \in Agents, Deregister(a) PROVE CallsRecorded'
  BY <1>11 DEF Deregister, CallsRecorded
<1>12. ASSUME NEW a \in Agents, Update(a) PROVE CallsRecorded'
  BY <1>12 DEF Update, Result, CallsRecorded
<1>13. ASSUME NEW a \in Agents, Cancel(a) PROVE CallsRecorded'
  <2>1. /\ current[a] \in batch[a] /\ current[a] \in Keys
        /\ pc'[a] = "finish"
        /\ batch'[a] = batch[a] \ {current[a]}
        /\ \A b \in Agents \ {a} : pc'[b] = pc[b] /\ batch'[b] = batch[b]
    BY <1>13 DEF Cancel, AtKey, TypeOK
  <2>2. finished' = finished \cup {<<a, current[a]>>}
       /\ UNCHANGED <<registered, calls, joined, owned, todo, op>>
    BY <1>13 DEF Cancel
  <2>5. ASSUME NEW b \in Agents, NEW k \in Keys
        PROVE  /\ <<b, k>> \in calls \ finished' <=> k \in owned[b] \cup batch'[b]
               /\ registered[k] = b => <<b, k>> \in calls \ finished'
    <3>1. CASE b = a /\ k = current[a]
      <4>1. registered[k] # a /\ k \notin owned[a]
        BY <1>13, <2>1, <3>1 DEF Deregistering, Outcomes, Cancel
      <4>2. QED
        BY <2>1, <2>2, <3>1, <4>1
    <3>2. CASE ~(b = a /\ k = current[a])
      <4>1. /\ <<b, k>> \in finished' <=> <<b, k>> \in finished
            /\ k \in batch'[b] <=> k \in batch[b]
        BY <2>1, <2>2, <3>2
      <4>2. QED
        BY <4>1 DEF CallsRecorded
    <3>3. QED
      BY <3>1, <3>2
  <2>6. \A b \in Agents : pc'[b] = pc[b] \/ (pc'[b] = "finish" /\ pc[b] = "cancel")
    BY <1>13, <2>1 DEF Cancel
  <2>7. QED
    BY <2>1, <2>2, <2>5, <2>6 DEF CallsRecorded
<1>14. ASSUME NEW a \in Agents, Lock(a) PROVE CallsRecorded'
  BY <1>14 DEF Lock, CallsRecorded
<1>15. ASSUME NEW a \in Agents, DropCall(a) PROVE CallsRecorded'
  BY <1>15 DEF DropCall, CallsRecorded
<1>16. ASSUME NEW a \in Agents, Write(a) PROVE CallsRecorded'
  BY <1>16 DEF Write, CallsRecorded
<1>17. CASE Terminating \/ UNCHANGED vars
  BY <1>17 DEF Terminating, CallsRecorded
<1>18. QED
  BY <1>1, <1>2, <1>3, <1>4, <1>5, <1>6, <1>7, <1>8, <1>9,
     <1>10, <1>11, <1>12, <1>13, <1>14, <1>15, <1>16, <1>17 DEF Next, AgentStep, LoadStep, WriteStep

\* Load gives an outcome to what it takes from the owned calls.
LEMMA OutcomesStep ==
    ASSUME TypeOK, Roles, AtKey, CallsRecorded, Outcomes, [Next]_vars
    PROVE  Outcomes'
<1>1. ASSUME NEW a \in Agents, BeginLoad(a) PROVE Outcomes'
  BY <1>1 DEF BeginLoad, Outcomes
<1>2. ASSUME NEW a \in Agents, BeginWrite(a) PROVE Outcomes'
  BY <1>2 DEF BeginWrite, Outcomes
<1>3. ASSUME NEW a \in Agents, Lookup(a) PROVE Outcomes'
  BY <1>3 DEF Lookup, Outcomes
<1>4. ASSUME NEW a \in Agents, StartCall(a) PROVE Outcomes'
  BY <1>4 DEF StartCall, Join, KeyStarted, Outcomes
<1>5. ASSUME NEW a \in Agents, Insert(a) PROVE Outcomes'
  <2>1. InsertDoes(a)
    BY <1>5, InsertEffect
  <2>2. calls \subseteq calls' /\ \A b \in Agents, k \in Keys : k \in owned'[b] => k \in owned[b] \/ <<b, k>> \notin calls
   BY <2>1 DEF InsertDoes
  <2>3. QED
   BY ZenonT(40), <2>1, <2>2 DEF Outcomes, InsertDoes
<1>6. ASSUME NEW a \in Agents, Load(a) PROVE Outcomes'
  <2>1. LoadDoes(a)
    BY <1>6, LoadEffect
  <2>2. ASSUME NEW b \in Agents, NEW k \in Keys
        PROVE  /\ outcome'[<<b, k>>] # "none" => <<b, k>> \in calls'
               /\ k \in owned'[b] => outcome'[<<b, k>>] = "none"
               /\ k \in batch'[b] => outcome'[<<b, k>>] # "none"
               /\ outcome'[<<b, k>>] = "panic" => "panic" \in scenario'.outcomes
    <3>1. CASE b = a /\ k \in ToLoad(a)
      BY <2>1, <3>1 DEF Outcomes, CallsRecorded, LoadDoes
    <3>2. CASE ~(b = a /\ k \in ToLoad(a))
      BY <2>1, <3>2 DEF Outcomes, CallsRecorded, LoadDoes
    <3>3. QED
      BY <3>1, <3>2
  <2>3. QED
    BY <2>2 DEF Outcomes
<1>7. ASSUME NEW a \in Agents, EndLoad(a) PROVE Outcomes'
  BY <1>7 DEF EndLoad, Outcomes
<1>8. ASSUME NEW a \in Agents, DeleteCall(a) PROVE Outcomes'
  BY <1>8 DEF DeleteCall, Outcomes
<1>9. ASSUME NEW a \in Agents, Wait(a) PROVE Outcomes'
  BY <1>9 DEF Wait, Outcomes
<1>10. ASSUME NEW a \in Agents, Finish(a) PROVE Outcomes'
  BY <1>10 DEF Finish, Outcomes
<1>11. ASSUME NEW a \in Agents, Deregister(a) PROVE Outcomes'
  BY <1>11 DEF Deregister, Outcomes
<1>12. ASSUME NEW a \in Agents, Update(a) PROVE Outcomes'
  BY <1>12 DEF Update, Result, Outcomes
<1>13. ASSUME NEW a \in Agents, Cancel(a) PROVE Outcomes'
  <2>1. batch'[a] \subseteq batch[a] /\ \A b \in Agents : b # a => batch'[b] = batch[b]
    BY <1>13 DEF Cancel, TypeOK
  <2>2. QED
    BY <1>13, <2>1 DEF Cancel, Outcomes
<1>14. ASSUME NEW a \in Agents, Lock(a) PROVE Outcomes'
  BY <1>14 DEF Lock, Outcomes
<1>15. ASSUME NEW a \in Agents, DropCall(a) PROVE Outcomes'
  BY <1>15 DEF DropCall, Outcomes
<1>16. ASSUME NEW a \in Agents, Write(a) PROVE Outcomes'
  BY <1>16 DEF Write, Outcomes
<1>17. CASE Terminating \/ UNCHANGED vars
  <2>1. UNCHANGED <<scenario, outcome, owned, batch, calls>>
    BY <1>17 DEF Terminating
  <2>2. QED
    BY <2>1 DEF Outcomes
<1>18. QED
  BY <1>1, <1>2, <1>3, <1>4, <1>5, <1>6, <1>7, <1>8, <1>9,
     <1>10, <1>11, <1>12, <1>13, <1>14, <1>15, <1>16, <1>17 DEF Next, AgentStep, LoadStep, WriteStep

\* The loop over the keys and EndLoad leave an agent nothing to load when it waits or returns.
LEMMA NothingLeftStep ==
    ASSUME TypeOK, NoSurvivedPanic, Roles, AtKey, CallsRecorded, Outcomes, NothingLeft, [Next]_vars
    PROVE  NothingLeft'
<1>1. ASSUME NEW a \in Agents, BeginLoad(a) PROVE NothingLeft'
  BY <1>1 DEF BeginLoad, NothingLeft
<1>2. ASSUME NEW a \in Agents, BeginWrite(a) PROVE NothingLeft'
  BY <1>2 DEF BeginWrite, NothingLeft
<1>3. ASSUME NEW a \in Agents, Lookup(a) PROVE NothingLeft'
  <2>1. owned[a] = {}
    BY <1>3 DEF Lookup, CallsRecorded, TypeOK
  <2>2. pc'[a] \notin Finishing /\ \A b \in Agents : b # a => pc'[b] = pc[b]
    BY <1>3 DEF Lookup, TypeOK
  <2>3. QED
    BY <1>3, <2>1, <2>2 DEF Lookup, NothingLeft
<1>4. ASSUME NEW a \in Agents, StartCall(a) PROVE NothingLeft'
  <2>1. StartCallDoes(a)
    BY <1>4, StartCallEffect
  <2>2. QED
    BY <2>1 DEF NothingLeft, StartCallDoes
<1>5. ASSUME NEW a \in Agents, Insert(a) PROVE NothingLeft'
  <2>1. InsertDoes(a)
    BY <1>5, InsertEffect
  <2>2. QED
    BY <2>1 DEF NothingLeft, InsertDoes
<1>6. ASSUME NEW a \in Agents, Load(a) PROVE NothingLeft'
  BY <1>6 DEF Load, Loaded, ToLoad, TypeOK, NothingLeft
<1>7. ASSUME NEW a \in Agents, EndLoad(a) PROVE NothingLeft'
  <2>1. pc'[a] \in {"wait", "done"} => owned[a] = {}
    <3>1. CASE Failed(a, "panic")
      <4>1. "panic" \in scenario.outcomes
        BY <3>1 DEF Failed, Outcomes
      <4>2. op[a] # "bulkRefresh"
        <5>1. pc[a] = "finish" /\ op[a] # "none"
          BY <1>7 DEF EndLoad, Roles
        <5>2. scenario \in Scenarios /\ op[a] \in scenario.ops
          BY <5>1 DEF Roles, TypeOK
        <5>3. QED
          BY <4>1, <5>2 DEF NoSurvivedPanic
      <4>3. QED
        BY <4>2, <1>7 DEF NothingLeft, EndLoad
    <3>2. CASE ~Failed(a, "panic")
      BY <3>2, <1>7 DEF NothingLeft, EndLoad, TypeOK
    <3>3. QED
      BY <3>1, <3>2
  <2>2. pc'[a] \notin Finishing /\ \A b \in Agents : b # a => pc'[b] = pc[b]
    BY <1>7 DEF EndLoad, TypeOK
  <2>3. QED
    BY <1>7, <2>1, <2>2 DEF EndLoad, NothingLeft
<1>8. ASSUME NEW a \in Agents, DeleteCall(a) PROVE NothingLeft'
  BY <1>8 DEF DeleteCall, NothingLeft
<1>9. ASSUME NEW a \in Agents, Wait(a) PROVE NothingLeft'
  BY <1>9 DEF Wait, NothingLeft
<1>10. ASSUME NEW a \in Agents, Finish(a) PROVE NothingLeft'
  BY <1>10 DEF Finish, NothingLeft
<1>11. ASSUME NEW a \in Agents, Deregister(a) PROVE NothingLeft'
  BY <1>11 DEF Deregister, NothingLeft
<1>12. ASSUME NEW a \in Agents, Update(a) PROVE NothingLeft'
  BY <1>12 DEF Update, Result, NothingLeft
<1>13. ASSUME NEW a \in Agents, Cancel(a) PROVE NothingLeft'
  BY <1>13 DEF Cancel, NothingLeft
<1>14. ASSUME NEW a \in Agents, Lock(a) PROVE NothingLeft'
  BY <1>14 DEF Lock, NothingLeft
<1>15. ASSUME NEW a \in Agents, DropCall(a) PROVE NothingLeft'
  BY <1>15 DEF DropCall, NothingLeft
<1>16. ASSUME NEW a \in Agents, Write(a) PROVE NothingLeft'
  <2>1. owned[a] = {}
    BY <1>16 DEF Write, CallsRecorded, Roles, TypeOK
  <2>2. pc'[a] = "done" /\ \A b \in Agents : b # a => pc'[b] = pc[b]
    BY <1>16 DEF Write, TypeOK
  <2>3. QED
    BY <1>16, <2>1, <2>2 DEF Write, NothingLeft
<1>17. CASE Terminating \/ UNCHANGED vars
  BY <1>17 DEF Terminating, NothingLeft
<1>18. QED
  BY <1>1, <1>2, <1>3, <1>4, <1>5, <1>6, <1>7, <1>8, <1>9,
     <1>10, <1>11, <1>12, <1>13, <1>14, <1>15, <1>16, <1>17 DEF Next, AgentStep, LoadStep, WriteStep

\* The bucket keeps writers away between the answer of deleteCall and the update.
LEMMA DeregisteringStep ==
    ASSUME TypeOK, AtKey, BucketHeld, CallsRecorded, SeenSound, SupersededSound, Deregistering, [Next]_vars
    PROVE  Deregistering'
<1>1. ASSUME NEW a \in Agents, BeginLoad(a) PROVE Deregistering'
  BY <1>1 DEF BeginLoad, Deregistering
<1>2. ASSUME NEW a \in Agents, BeginWrite(a) PROVE Deregistering'
  BY <1>2 DEF BeginWrite, Deregistering
<1>3. ASSUME NEW a \in Agents, Lookup(a) PROVE Deregistering'
  BY <1>3 DEF Lookup, Deregistering
<1>4. ASSUME NEW a \in Agents, StartCall(a) PROVE Deregistering'
  BY <1>4 DEF StartCall, Join, KeyStarted, TypeOK, Deregistering
<1>5. ASSUME NEW a \in Agents, Insert(a) PROVE Deregistering'
  BY <1>5 DEF Insert, Join, KeyStarted, TypeOK, AtKey, BucketHeld, CallsRecorded, SeenSound, SupersededSound, Deregistering
<1>6. ASSUME NEW a \in Agents, Load(a) PROVE Deregistering'
  BY <1>6 DEF Load, Loaded, ToLoad, Deregistering
<1>7. ASSUME NEW a \in Agents, EndLoad(a) PROVE Deregistering'
  BY <1>7 DEF EndLoad, Deregistering
<1>8. ASSUME NEW a \in Agents, DeleteCall(a) PROVE Deregistering'
  BY <1>8 DEF DeleteCall, Deregistering
<1>9. ASSUME NEW a \in Agents, Wait(a) PROVE Deregistering'
  BY <1>9 DEF Wait, Deregistering
<1>10. ASSUME NEW a \in Agents, Finish(a) PROVE Deregistering'
  <2>1. /\ pc'[a] \in {"deleteCall", "update"}
        /\ pc'[a] = "deleteCall" => ~correct'[a]
        /\ pc'[a] = "update" => current'[a] \notin batch[a]
        /\ \A b \in Agents \ {a} :
              pc'[b] = pc[b] /\ correct'[b] = correct[b] /\ current'[b] = current[b]
        /\ UNCHANGED <<registered, batch, superseded>>
    <3>1. PICK k \in batch[a] \cup extras[a] :
            /\ current' = [current EXCEPT ![a] = k]
            /\ correct' = [correct EXCEPT ![a] = k \notin batch[a]]
            /\ Goto(a, IF k \in batch[a] THEN "deleteCall" ELSE "update")
      BY <1>10 DEF Finish
    <3>2. current'[a] = k /\ correct'[a] = (k \notin batch[a])
      BY <3>1 DEF TypeOK
    <3>3. pc'[a] = IF k \in batch[a] THEN "deleteCall" ELSE "update"
      BY <3>1 DEF TypeOK
    <3>4. \A b \in Agents \ {a} :
              pc'[b] = pc[b] /\ correct'[b] = correct[b] /\ current'[b] = current[b]
      BY <3>1 DEF TypeOK
    <3>5. QED
      BY <1>10, <3>2, <3>3, <3>4 DEF Finish
  <2>2. QED
    BY <2>1 DEF Deregistering
<1>11. ASSUME NEW a \in Agents, Deregister(a) PROVE Deregistering'
  BY <1>11 DEF Deregister, TypeOK, AtKey, BucketHeld, CallsRecorded, SeenSound, SupersededSound, Deregistering
<1>12. ASSUME NEW a \in Agents, Update(a) PROVE Deregistering'
  BY <1>12 DEF Update, Result, Deregistering
<1>13. ASSUME NEW a \in Agents, Cancel(a) PROVE Deregistering'
  BY <1>13 DEF Cancel, Deregistering
<1>14. ASSUME NEW a \in Agents, Lock(a) PROVE Deregistering'
  BY <1>14 DEF Lock, Deregistering
<1>15. ASSUME NEW a \in Agents, DropCall(a) PROVE Deregistering'
  BY <1>15 DEF DropCall, AtKey, BucketHeld, CallsRecorded, SeenSound, SupersededSound, Deregistering
<1>16. ASSUME NEW a \in Agents, Write(a) PROVE Deregistering'
  <2>1. current[a] \in Keys /\ bucket[current[a]] = a
    BY <1>16 DEF Write, AtKey, BucketHeld
  <2>2. \A c \in superseded' \ superseded : c[2] = current[a]
    BY <1>16 DEF Write, SeenSound
  <2>3. \A b \in Agents : pc'[b] = IF b = a THEN "done" ELSE pc[b]
    BY <1>16 DEF Write, TypeOK
  <2>4. QED
    BY <1>16, <2>1, <2>2, <2>3 DEF Write, Deregistering, BucketHeld
<1>17. CASE Terminating \/ UNCHANGED vars
  BY <1>17 DEF Terminating, Deregistering
<1>18. QED
  BY <1>1, <1>2, <1>3, <1>4, <1>5, <1>6, <1>7, <1>8, <1>9,
     <1>10, <1>11, <1>12, <1>13, <1>14, <1>15, <1>16, <1>17 DEF Next, AgentStep, LoadStep, WriteStep

\* A step that leaves the writers, and the calls of their keys, alone.
LEMMA SeenSoundFrame ==
    ASSUME SeenSound, AtKey, UNCHANGED seen, calls \subseteq calls',
           \A w \in Agents :
              /\ pc'[w] = "write" => pc[w] = "write"
              /\ pc[w] \in {"write", "done"} =>
                    pc'[w] \in {"write", "done"} /\ current'[w] = current[w],
           \A k \in Keys : registered'[k] = registered[k] \/ <<registered'[k], k>> \notin calls
    PROVE  SeenSound'
<1>1. ASSUME NEW w \in Agents, pc'[w] = "write"
      PROVE  <<registered'[current'[w]], current'[w]>> \notin seen'[w]
  <2>1. pc[w] = "write" /\ current'[w] = current[w] /\ current[w] \in Keys
    BY <1>1 DEF AtKey
  <2>2. QED
    BY <2>1 DEF SeenSound
<1>2. ASSUME NEW w \in Agents
      PROVE  /\ seen'[w] \subseteq calls'
             /\ seen'[w] # {} => pc'[w] \in {"write", "done"} /\ \A c \in seen'[w] : c[2] = current'[w]
  BY DEF SeenSound
<1>3. QED
  BY <1>1, <1>2 DEF SeenSound

\* A call registered after a writer has cancelled the key's is a new one.
LEMMA SeenSoundStep ==
    ASSUME TypeOK, Roles, AtKey, BucketHeld, CallsRecorded, Deregistering, SeenSound, [Next]_vars
    PROVE  SeenSound'
<1>1. ASSUME NEW a \in Agents, BeginLoad(a) PROVE SeenSound'
  BY <1>1 DEF BeginLoad, SeenSound
<1>2. ASSUME NEW a \in Agents, BeginWrite(a) PROVE SeenSound'
  BY <1>2 DEF BeginWrite, TypeOK, SeenSound
<1>3. ASSUME NEW a \in Agents, Lookup(a) PROVE SeenSound'
  BY <1>3 DEF Lookup, TypeOK, Roles, AtKey, BucketHeld, CallsRecorded, Deregistering, SeenSound
<1>4. ASSUME NEW a \in Agents, StartCall(a) PROVE SeenSound'
  <2>1. StartCallDoes(a)
    BY <1>4, StartCallEffect
  <2>2. QED
    BY <2>1, SeenSoundFrame DEF StartCallDoes
<1>5. ASSUME NEW a \in Agents, Insert(a) PROVE SeenSound'
  <2>1. InsertDoes(a)
    BY <1>5, InsertEffect
  <2>2. \A k \in Keys : registered'[k] = registered[k] \/ <<registered'[k], k>> \notin calls
    BY <2>1 DEF InsertDoes
  <2>3. QED
    BY <2>1, <2>2, SeenSoundFrame DEF InsertDoes
<1>6. ASSUME NEW a \in Agents, Load(a) PROVE SeenSound'
  BY <1>6 DEF Load, Loaded, ToLoad, TypeOK, SeenSound
<1>7. ASSUME NEW a \in Agents, EndLoad(a) PROVE SeenSound'
  BY <1>7 DEF EndLoad, SeenSound
<1>8. ASSUME NEW a \in Agents, DeleteCall(a) PROVE SeenSound'
  BY <1>8 DEF DeleteCall, SeenSound
<1>9. ASSUME NEW a \in Agents, Wait(a) PROVE SeenSound'
  BY <1>9 DEF Wait, SeenSound
<1>10. ASSUME NEW a \in Agents, Finish(a) PROVE SeenSound'
  BY <1>10 DEF Finish, TypeOK, SeenSound
<1>11. ASSUME NEW a \in Agents, Deregister(a) PROVE SeenSound'
  <2>1. \A k \in Keys : registered'[k] \in {registered[k], Nobody}
    BY <1>11 DEF Deregister, TypeOK
  <2>2. \A k \in Keys : <<Nobody, k>> \notin calls
    BY DEF TypeOK
  <2>3. /\ pc[a] = "deregister" /\ pc'[a] = "update"
        /\ \A b \in Agents \ {a} : pc'[b] = pc[b]
        /\ UNCHANGED <<current, seen, calls>>
    BY <1>11 DEF Deregister, TypeOK
  <2>4. QED
    BY <2>1, <2>2, <2>3, SeenSoundFrame
<1>12. ASSUME NEW a \in Agents, Update(a) PROVE SeenSound'
  BY <1>12 DEF Update, Result, SeenSound
<1>13. ASSUME NEW a \in Agents, Cancel(a) PROVE SeenSound'
  BY <1>13 DEF Cancel, SeenSound
<1>14. ASSUME NEW a \in Agents, Lock(a) PROVE SeenSound'
  BY <1>14 DEF Lock, SeenSound
<1>15. ASSUME NEW a \in Agents, DropCall(a) PROVE SeenSound'
  <2>1. current[a] \in Keys
    BY <1>15 DEF DropCall, AtKey, TypeOK
  <2>2. /\ pc[a] = "dropCall" /\ pc'[a] = "write" /\ seen'[a] = CallsOf(current[a])
        /\ \A b \in Agents \ {a} : pc'[b] = pc[b] /\ seen'[b] = seen[b]
        /\ registered'[current[a]] = Nobody
        /\ \A k \in Keys : registered'[k] \in {registered[k], Nobody}
        /\ UNCHANGED <<current, calls>>
    BY <1>15, <2>1 DEF DropCall, TypeOK
  <2>3. \A w \in Agents : <<Nobody, current[w]>> \notin calls
    BY DEF TypeOK
  <2>4. \A w \in Agents \ {a} : pc'[w] = "write" => pc[w] = "write" /\ current[w] \in Keys
    BY <2>2 DEF AtKey
  <2>5. \A w \in Agents : pc'[w] = "write" => <<registered'[current[w]], current[w]>> \notin seen'[w]
    BY ZenonT(40), <2>1, <2>2, <2>3, <2>4 DEF SeenSound
  <2>6. ASSUME NEW w \in Agents
        PROVE  /\ seen'[w] \subseteq calls
               /\ seen'[w] # {} => /\ pc'[w] \in {"write", "done"}
                                  /\ \A c \in seen'[w] : c[2] = current[w]
    <3>1. CASE w = a
      BY <2>2, <3>1
    <3>2. CASE w # a
      <4>1. seen'[w] = seen[w] /\ pc'[w] = pc[w]
        BY <2>2, <3>2
      <4>2. QED
        BY ZenonT(40), <2>2, <4>1 DEF SeenSound
    <3>3. QED
      BY <3>1, <3>2
  <2>7. QED
    BY <2>2, <2>5, <2>6 DEF SeenSound
<1>16. ASSUME NEW a \in Agents, Write(a) PROVE SeenSound'
  BY <1>16 DEF Write, SeenSound
<1>17. CASE Terminating \/ UNCHANGED vars
  <2>1. UNCHANGED <<pc, registered, current, seen, calls>>
    BY <1>17 DEF Terminating
  <2>2. QED
    BY <2>1 DEF SeenSound
<1>18. QED
  BY <1>1, <1>2, <1>3, <1>4, <1>5, <1>6, <1>7, <1>8, <1>9,
     <1>10, <1>11, <1>12, <1>13, <1>14, <1>15, <1>16, <1>17 DEF Next, AgentStep, LoadStep, WriteStep

\* What a write makes obsolete is what the writer has taken out of the table.
LEMMA SupersededSoundStep ==
    ASSUME TypeOK, Roles, AtKey, CallsRecorded, SeenSound, SupersededSound, [Next]_vars
    PROVE  SupersededSound'
<1>1. ASSUME NEW a \in Agents, BeginLoad(a) PROVE SupersededSound'
  BY <1>1 DEF BeginLoad, SupersededSound
<1>2. ASSUME NEW a \in Agents, BeginWrite(a) PROVE SupersededSound'
  BY <1>2 DEF BeginWrite, SupersededSound
<1>3. ASSUME NEW a \in Agents, Lookup(a) PROVE SupersededSound'
  BY <1>3 DEF Lookup, SupersededSound
<1>4. ASSUME NEW a \in Agents, StartCall(a) PROVE SupersededSound'
  BY <1>4 DEF StartCall, Join, KeyStarted, SupersededSound
<1>5. ASSUME NEW a \in Agents, Insert(a) PROVE SupersededSound'
  BY <1>5 DEF Insert, Join, KeyStarted, TypeOK, Roles, AtKey, CallsRecorded, SeenSound, SupersededSound
<1>6. ASSUME NEW a \in Agents, Load(a) PROVE SupersededSound'
  BY <1>6 DEF Load, Loaded, ToLoad, SupersededSound
<1>7. ASSUME NEW a \in Agents, EndLoad(a) PROVE SupersededSound'
  BY <1>7 DEF EndLoad, SupersededSound
<1>8. ASSUME NEW a \in Agents, DeleteCall(a) PROVE SupersededSound'
  BY <1>8 DEF DeleteCall, SupersededSound
<1>9. ASSUME NEW a \in Agents, Wait(a) PROVE SupersededSound'
  BY <1>9 DEF Wait, SupersededSound
<1>10. ASSUME NEW a \in Agents, Finish(a) PROVE SupersededSound'
  BY <1>10 DEF Finish, SupersededSound
<1>11. ASSUME NEW a \in Agents, Deregister(a) PROVE SupersededSound'
  BY <1>11 DEF Deregister, TypeOK, SupersededSound
<1>12. ASSUME NEW a \in Agents, Update(a) PROVE SupersededSound'
  BY <1>12 DEF Update, Result, SupersededSound
<1>13. ASSUME NEW a \in Agents, Cancel(a) PROVE SupersededSound'
  BY <1>13 DEF Cancel, SupersededSound
<1>14. ASSUME NEW a \in Agents, Lock(a) PROVE SupersededSound'
  BY <1>14 DEF Lock, SupersededSound
<1>15. ASSUME NEW a \in Agents, DropCall(a) PROVE SupersededSound'
  BY <1>15 DEF DropCall, TypeOK, SupersededSound
<1>16. ASSUME NEW a \in Agents, Write(a) PROVE SupersededSound'
  <2>1. /\ superseded' \in {superseded, superseded \cup seen[a]}
        /\ UNCHANGED <<calls, registered, behind, seen, current>>
        /\ pc[a] = "write"
    BY <1>16 DEF Write
  <2>2. \A k \in Keys : <<registered[k], k>> \notin seen[a]
    BY <2>1 DEF SeenSound
  <2>3. QED
    BY <2>1, <2>2 DEF SupersededSound, SeenSound
<1>17. CASE Terminating \/ UNCHANGED vars
  BY <1>17 DEF Terminating, SupersededSound
<1>18. QED
  BY <1>1, <1>2, <1>3, <1>4, <1>5, <1>6, <1>7, <1>8, <1>9,
     <1>10, <1>11, <1>12, <1>13, <1>14, <1>15, <1>16, <1>17 DEF Next, AgentStep, LoadStep, WriteStep

\* A step that changes no call keeps those without an outcome registered or cancelled.
LEMMA OpenRegisteredFrame ==
    ASSUME OpenRegistered, UNCHANGED <<registered, outcome, calls, seen>>,
           \A w \in Agents : pc[w] \in {"write", "done"} => pc'[w] = pc[w] \/ pc'[w] = "done"
    PROVE  OpenRegistered'
BY DEF OpenRegistered

\* A call leaves the table with an outcome, or by a writer that has seen it.
LEMMA OpenRegisteredStep ==
    ASSUME TypeOK, Roles, AtKey, CallsRecorded, Outcomes, Deregistering, SeenSound, OpenRegistered, [Next]_vars
    PROVE  OpenRegistered'
<1>1. ASSUME NEW a \in Agents, BeginLoad(a) PROVE OpenRegistered'
  BY <1>1, OpenRegisteredFrame DEF BeginLoad
<1>2. ASSUME NEW a \in Agents, BeginWrite(a) PROVE OpenRegistered'
  BY <1>2, OpenRegisteredFrame DEF BeginWrite
<1>3. ASSUME NEW a \in Agents, Lookup(a) PROVE OpenRegistered'
  BY <1>3, OpenRegisteredFrame DEF Lookup
<1>4. ASSUME NEW a \in Agents, StartCall(a) PROVE OpenRegistered'
  <2>1. StartCallDoes(a)
    BY <1>4, StartCallEffect
  <2>2. QED
    BY <2>1, OpenRegisteredFrame DEF StartCallDoes
<1>5. ASSUME NEW a \in Agents, Insert(a) PROVE OpenRegistered'
  <2>1. InsertDoes(a)
    BY <1>5, InsertEffect
  <2>2. \A w \in Agents : pc[w] \in {"write", "done"} => pc'[w] = pc[w]
    BY <2>1 DEF InsertDoes
  <2>3. ASSUME NEW b \in Agents, NEW k \in Keys, <<b, k>> \in calls', outcome[<<b, k>>] = "none"
        PROVE  \/ registered'[k] = b
               \/ \E w \in Agents : pc[w] \in {"write", "done"} /\ <<b, k>> \in seen[w]
    <3>1. CASE <<b, k>> \in calls
      <4>1. registered[k] = b => registered'[k] = b
        BY <2>1 DEF InsertDoes, TypeOK
      <4>2. QED
        BY <2>3, <3>1, <4>1 DEF OpenRegistered
    <3>2. CASE <<b, k>> \notin calls
      BY <2>1, <2>3, <3>2 DEF InsertDoes
    <3>3. QED
      BY <3>1, <3>2
  <2>4. UNCHANGED <<outcome, seen>>
    BY <2>1 DEF InsertDoes
  <2>5. QED
    BY <2>2, <2>3, <2>4 DEF OpenRegistered
<1>6. ASSUME NEW a \in Agents, Load(a) PROVE OpenRegistered'
  <2>1. LoadDoes(a)
    BY <1>6, LoadEffect
  <2>2. \A w \in Agents : pc[w] \in {"write", "done"} => pc'[w] = pc[w]
    BY <2>1 DEF LoadDoes
  <2>3. \A b \in Agents, k \in Keys : outcome'[<<b, k>>] = "none" => outcome[<<b, k>>] = "none"
    BY <2>1 DEF LoadDoes
  <2>4. UNCHANGED <<registered, calls, seen>>
    BY <2>1 DEF LoadDoes
  <2>5. QED
    BY <2>2, <2>3, <2>4 DEF OpenRegistered
<1>7. ASSUME NEW a \in Agents, EndLoad(a) PROVE OpenRegistered'
  BY <1>7, OpenRegisteredFrame DEF EndLoad
<1>8. ASSUME NEW a \in Agents, DeleteCall(a) PROVE OpenRegistered'
  BY <1>8, OpenRegisteredFrame DEF DeleteCall
<1>9. ASSUME NEW a \in Agents, Wait(a) PROVE OpenRegistered'
  BY <1>9, OpenRegisteredFrame DEF Wait
<1>10. ASSUME NEW a \in Agents, Finish(a) PROVE OpenRegistered'
  BY <1>10, OpenRegisteredFrame DEF Finish
<1>11. ASSUME NEW a \in Agents, Deregister(a) PROVE OpenRegistered'
  <2>1. current[a] \in batch[a] /\ current[a] \in Keys
    BY <1>11 DEF Deregister, AtKey, TypeOK
  <2>2. outcome[<<a, current[a]>>] # "none"
    BY <2>1 DEF Outcomes
  <2>3. /\ \A k \in Keys, b \in Agents : registered[k] = b => registered'[k] = b \/ (k = current[a] /\ b = a)
        /\ \A w \in Agents : pc[w] \in {"write", "done"} => pc'[w] = pc[w]
        /\ UNCHANGED <<outcome, calls, seen>>
    BY <1>11, <2>1 DEF Deregister, TypeOK
  <2>4. QED
    BY <2>2, <2>3 DEF OpenRegistered
<1>12. ASSUME NEW a \in Agents, Update(a) PROVE OpenRegistered'
  BY <1>12, OpenRegisteredFrame DEF Update
<1>13. ASSUME NEW a \in Agents, Cancel(a) PROVE OpenRegistered'
  BY <1>13, OpenRegisteredFrame DEF Cancel
<1>14. ASSUME NEW a \in Agents, Lock(a) PROVE OpenRegistered'
  BY <1>14, OpenRegisteredFrame DEF Lock
<1>15. ASSUME NEW a \in Agents, DropCall(a) PROVE OpenRegistered'
  BY SMTT(30), <1>15 DEF DropCall, TypeOK, Roles, AtKey, CallsRecorded, Outcomes, Deregistering, SeenSound, OpenRegistered
<1>16. ASSUME NEW a \in Agents, Write(a) PROVE OpenRegistered'
  BY <1>16 DEF Write, OpenRegistered
<1>17. CASE Terminating \/ UNCHANGED vars
  BY <1>17 DEF Terminating, OpenRegistered
<1>18. QED
  BY <1>1, <1>2, <1>3, <1>4, <1>5, <1>6, <1>7, <1>8, <1>9,
     <1>10, <1>11, <1>12, <1>13, <1>14, <1>15, <1>16, <1>17 DEF Next, AgentStep, LoadStep, WriteStep

\* A step that leaves alone what has become of the calls.
LEMMA DroppedFrame ==
    ASSUME Dropped, UNCHANGED <<registered, outcome, calls, installed, overtaken, seen, batch, owned, correct>>,
           \A b \in Agents :
              /\ pc[b] \in {"update", "write"} => pc'[b] = pc[b] /\ current'[b] = current[b]
              /\ pc'[b] = "cancel" => pc[b] = "cancel" /\ current'[b] = current[b]
              /\ op[b] = "evict" => op'[b] = "evict"
    PROVE  Dropped'
<1>1. \A b \in Agents, k \in Keys : Unsettled(b, k) => Unsettled(b, k)'
  BY DEF Unsettled
<1>2. QED
  BY <1>1 DEF Dropped

\* A call that is dropped from the table is accounted for until its value is in the map.
LEMMA DroppedStep ==
    ASSUME TypeOK, Roles, AtKey, BucketHeld, CallsRecorded, Outcomes, Deregistering, SeenSound, Dropped, [Next]_vars
    PROVE  Dropped'
<1>1. ASSUME NEW a \in Agents, BeginLoad(a) PROVE Dropped'
  BY <1>1, DroppedFrame DEF BeginLoad, Roles
<1>2. ASSUME NEW a \in Agents, BeginWrite(a) PROVE Dropped'
  BY <1>2, DroppedFrame DEF BeginWrite, Roles
<1>3. ASSUME NEW a \in Agents, Lookup(a) PROVE Dropped'
  BY <1>3, DroppedFrame DEF Lookup
<1>4. ASSUME NEW a \in Agents, StartCall(a) PROVE Dropped'
  <2>1. StartCallDoes(a)
    BY <1>4, StartCallEffect
  <2>2. QED
    BY <2>1, DroppedFrame DEF StartCallDoes
<1>5. ASSUME NEW a \in Agents, Insert(a) PROVE Dropped'
  <2>1. InsertDoes(a)
    BY <1>5, InsertEffect
  <2>2. ASSUME NEW b \in Agents, NEW k \in Keys, <<b, k>> \in calls', registered'[k] # b
        PROVE  <<b, k>> \in calls /\ registered[k] # b
    BY <2>1, <2>2 DEF InsertDoes
  <2>3. \A b \in Agents, k \in Keys : Unsettled(b, k) => Unsettled(b, k)'
    BY <2>1 DEF InsertDoes, Unsettled
  <2>4. /\ \A b \in Agents : pc[b] \in {"write", "update"} => pc'[b] = pc[b]
        /\ UNCHANGED <<outcome, seen, op, batch, correct, current, installed, overtaken>>
    BY <2>1 DEF InsertDoes
  <2>5. QED
    BY <2>2, <2>3, <2>4 DEF Dropped
<1>6. ASSUME NEW a \in Agents, Load(a) PROVE Dropped'
  <2>1. LoadDoes(a)
    BY <1>6, LoadEffect
  <2>2. ASSUME NEW b \in Agents, NEW k \in Keys
        PROVE  /\ outcome[<<b, k>>] \notin {"none", "value"} => outcome'[<<b, k>>] = outcome[<<b, k>>]
    <3>1. b = a /\ k \in ToLoad(a) => outcome[<<b, k>>] = "none"
      BY <2>1 DEF LoadDoes, Outcomes
    <3>2. QED
      BY <2>1, <3>1 DEF LoadDoes
  <2>3. UNCHANGED <<registered, calls, seen, op, correct, current, installed, overtaken>>
    BY <2>1 DEF LoadDoes
  <2>4. \A b \in Agents :
           /\ pc[b] \in {"write", "update"} => pc'[b] = pc[b] /\ batch'[b] = batch[b]
           /\ pc'[b] = "cancel" => pc[b] = "cancel"
    BY <2>1 DEF LoadDoes
  <2>5. \A b \in Agents : owned[b] \cup batch[b] \subseteq owned'[b] \cup batch'[b]
    BY <2>1 DEF LoadDoes, AtKey
  <2>6. \A b \in Agents, k \in Keys : Unsettled(b, k) => Unsettled(b, k)'
    BY <2>3, <2>4, <2>5 DEF Unsettled
  <2>7. ASSUME NEW b \in Agents, NEW k \in Keys, <<b, k>> \in calls', registered'[k] # b
        PROVE  \/ <<b, k>> \in installed' \cup overtaken'
               \/ pc'[b] = "update" /\ correct'[b] /\ current'[b] = k /\ k \in batch'[b]
               \/ \E w \in Agents : op'[w] = "evict" /\ <<b, k>> \in seen'[w]
               \/ \E w \in Agents : pc'[w] = "write" /\ <<b, k>> \in seen'[w] /\ Unsettled(b, k)'
               \/ outcome'[<<b, k>>] \notin {"none", "value"}
    BY <2>2, <2>3, <2>4, <2>6, <2>7 DEF Dropped
  <2>8. QED
    BY <2>7 DEF Dropped
<1>7. ASSUME NEW a \in Agents, EndLoad(a) PROVE Dropped'
  BY <1>7, DroppedFrame DEF EndLoad
<1>8. ASSUME NEW a \in Agents, DeleteCall(a) PROVE Dropped'
  BY <1>8, DroppedFrame DEF DeleteCall
<1>9. ASSUME NEW a \in Agents, Wait(a) PROVE Dropped'
  BY <1>9, DroppedFrame DEF Wait
<1>10. ASSUME NEW a \in Agents, Finish(a) PROVE Dropped'
  <2>1. /\ pc[a] = "finish" /\ pc'[a] \in {"deleteCall", "update"}
        /\ \A b \in Agents \ {a} : pc'[b] = pc[b] /\ current'[b] = current[b] /\ correct'[b] = correct[b]
        /\ UNCHANGED <<registered, outcome, calls, op, seen, owned, batch, installed, overtaken>>
    BY <1>10 DEF Finish, TypeOK
  <2>2. \A b \in Agents, k \in Keys : Unsettled(b, k) => Unsettled(b, k)'
    BY <2>1 DEF Unsettled
  <2>3. QED
    BY <2>1, <2>2 DEF Dropped
<1>11. ASSUME NEW a \in Agents, Deregister(a) PROVE Dropped'
  <2>1. current[a] \in batch[a] /\ current[a] \in Keys
    BY <1>11 DEF Deregister, AtKey, TypeOK
  <2>2. pc[a] = "deregister" /\ registered[current[a]] = a
    BY <1>11 DEF Deregister, Deregistering
  <2>3. registered' = [registered EXCEPT ![current[a]] = Nobody]
    BY <1>11, <2>2 DEF Deregister
  <2>4. correct' = [correct EXCEPT ![a] = registered'[current[a]] = Nobody]
    BY <1>11 DEF Deregister
  <2>5. correct'[a] /\ \A b \in Agents \ {a} : correct'[b] = correct[b]
    <3>1. registered'[current[a]] = Nobody
      BY <2>1, <2>3 DEF TypeOK
    <3>2. correct' = [correct EXCEPT ![a] = TRUE]
      BY <2>4, <3>1
    <3>3. QED
      BY <3>2 DEF TypeOK
  <2>6. /\ pc'[a] = "update"
        /\ \A b \in Agents \ {a} : pc'[b] = pc[b]
        /\ UNCHANGED <<outcome, calls, seen, op, batch, current, installed, overtaken>>
    BY <1>11 DEF Deregister, TypeOK
  <2>7. \A k \in Keys, b \in Agents : registered[k] = b => registered'[k] = b \/ (k = current[a] /\ b = a)
    BY <2>2, <2>3 DEF TypeOK
  <2>8. \A b \in Agents, k \in Keys : Unsettled(b, k) => Unsettled(b, k)'
    BY <1>11, <2>6 DEF Unsettled, Deregister
  <2>9. QED
    BY <2>1, <2>2, <2>5, <2>6, <2>7, <2>8 DEF Dropped
<1>12. ASSUME NEW a \in Agents, Update(a) PROVE Dropped'
  <2>1. current[a] \in Keys
    BY <1>12 DEF Update, AtKey
  <2>2. /\ pc[a] = "update"
        /\ \A b \in Agents \ {a} : pc'[b] = pc[b]
        /\ UNCHANGED <<outcome, calls, seen, op, registered, owned, correct, batch, current, overtaken>>
        /\ installed \subseteq installed'
    BY <1>12 DEF Update, TypeOK
  <2>3. correct[a] /\ current[a] \in batch[a] =>
          <<a, current[a]>> \in installed' \/ outcome[<<a, current[a]>>] \notin {"none", "value"}
    BY <1>12, <2>1 DEF Update, Result, Outcomes
  <2>4. ASSUME NEW w \in Agents, pc[w] = "write", NEW b \in Agents, NEW k \in Keys,
               <<b, k>> \in seen[w], Unsettled(b, k)
        PROVE  pc'[w] = "write" /\ Unsettled(b, k)'
    <3>1. w # a /\ current[w] = k
      BY <2>2, <2>4 DEF SeenSound
    <3>2. current[a] # k
      BY <2>2, <2>4, <3>1 DEF BucketHeld
    <3>3. QED
      BY <2>2, <2>4, <3>1, <3>2 DEF Unsettled
  <2>5. QED
    BY <2>2, <2>3, <2>4 DEF Dropped
<1>13. ASSUME NEW a \in Agents, Cancel(a) PROVE Dropped'
  <2>1. /\ pc[a] = "cancel" /\ pc'[a] = "finish"
        /\ batch'[a] = batch[a] \ {current[a]}
        /\ \A b \in Agents \ {a} : pc'[b] = pc[b] /\ batch'[b] = batch[b]
        /\ UNCHANGED <<outcome, calls, seen, op, registered, owned, correct, current, installed, overtaken>>
    BY <1>13 DEF Cancel, TypeOK
  <2>2. \A b \in Agents, k \in Keys : Unsettled(b, k) => Unsettled(b, k)'
    BY <2>1 DEF Unsettled
  <2>3. QED
    BY <2>1, <2>2 DEF Dropped
<1>14. ASSUME NEW a \in Agents, Lock(a) PROVE Dropped'
  BY <1>14, DroppedFrame DEF Lock
<1>15. ASSUME NEW a \in Agents, DropCall(a) PROVE Dropped'
  <2>1. current[a] \in Keys
    BY <1>15 DEF DropCall, AtKey, TypeOK
  <2>2. /\ pc[a] = "dropCall" /\ pc'[a] = "write" /\ seen'[a] = CallsOf(current[a])
        /\ \A b \in Agents \ {a} : pc'[b] = pc[b] /\ seen'[b] = seen[b]
        /\ \A k \in Keys \ {current[a]} : registered'[k] = registered[k]
        /\ UNCHANGED <<outcome, calls, finished, op, owned, correct, batch, current, installed, overtaken>>
    BY <1>15, <2>1 DEF DropCall, TypeOK
  <2>3. seen[a] = {}
    BY <2>2 DEF SeenSound
  <2>4. ASSUME NEW b \in Agents, NEW k \in Keys, <<b, k>> \in calls', registered'[k] # b
        PROVE  \/ <<b, k>> \in installed' \cup overtaken'
               \/ pc'[b] = "update" /\ correct'[b] /\ current'[b] = k /\ k \in batch'[b]
               \/ \E w \in Agents : op'[w] = "evict" /\ <<b, k>> \in seen'[w]
               \/ \E w \in Agents : pc'[w] = "write" /\ <<b, k>> \in seen'[w] /\ Unsettled(b, k)'
               \/ outcome'[<<b, k>>] \notin {"none", "value"}
    <3>1. Unsettled(b, k)' <=> Unsettled(b, k)
      BY <2>2 DEF Unsettled
    <3>2. CASE k = current[a] /\ Unsettled(b, k)
      BY <2>2, <2>4, <3>1, <3>2
    <3>3. CASE ~(k = current[a] /\ Unsettled(b, k))
      <4>1. registered[k] # b
        <5>1. CASE k = current[a]
          <6>1. registered[k] = b => k \in owned[b] \cup batch[b] /\ pc[b] = "cancel" /\ current[b] = k
            BY <3>3, <5>1 DEF Unsettled, CallsRecorded
          <6>2. QED
            BY <6>1 DEF AtKey, Deregistering
        <5>2. CASE k # current[a]
          BY <2>2, <2>4, <5>2
        <5>3. QED
          BY <5>1, <5>2
      <4>2. pc[b] = "update" => pc'[b] = "update"
        BY <2>2
      <4>3. \A w \in Agents : <<b, k>> \in seen[w] => seen'[w] = seen[w] /\ pc'[w] = pc[w]
        BY <2>2, <2>3
      <4>4. QED
        BY <2>2, <2>4, <3>1, <4>1, <4>2, <4>3 DEF Dropped
    <3>4. QED
      BY <3>2, <3>3
  <2>5. QED
    BY <2>4 DEF Dropped
<1>16. ASSUME NEW a \in Agents, Write(a) PROVE Dropped'
  <2>1. /\ pc[a] = "write" /\ pc'[a] = "done" /\ current[a] \in Keys
        /\ \A b \in Agents \ {a} : pc'[b] = pc[b]
        /\ UNCHANGED <<outcome, calls, op, owned, registered, seen, correct, batch, current, installed>>
        /\ overtaken \subseteq overtaken'
    BY <1>16 DEF Write, AtKey, TypeOK
  <2>2. op[a] = "evict" \/ seen[a] \subseteq overtaken'
    <3>1. op[a] # "evict" => overtaken' = overtaken \cup CallsOf(current[a])
      BY <1>16 DEF Write
    <3>2. seen[a] \subseteq CallsOf(current[a])
      BY DEF SeenSound
    <3>3. QED
      BY <3>1, <3>2
  <2>3. \A b \in Agents, k \in Keys : Unsettled(b, k) => Unsettled(b, k)'
    BY <2>1 DEF Unsettled
  <2>4. QED
    BY <2>1, <2>2, <2>3 DEF Dropped
<1>17. CASE Terminating \/ UNCHANGED vars
  BY <1>17, DroppedFrame DEF Terminating
<1>18. QED
  BY <1>1, <1>2, <1>3, <1>4, <1>5, <1>6, <1>7, <1>8, <1>9,
     <1>10, <1>11, <1>12, <1>13, <1>14, <1>15, <1>16, <1>17 DEF Next, AgentStep, LoadStep, WriteStep

\* Extras come from the load of a bulk operation, which keeps them until they are in the map.
LEMMA ExtrasSoundStep ==
    ASSUME TypeOK, Roles, AtKey, ExtrasSound, [Next]_vars PROVE ExtrasSound'
<1>1. ASSUME NEW a \in Agents, BeginLoad(a) PROVE ExtrasSound'
  BY <1>1 DEF BeginLoad, ExtrasSound, TypeOK, Roles, AtKey
<1>2. ASSUME NEW a \in Agents, BeginWrite(a) PROVE ExtrasSound'
  BY <1>2 DEF BeginWrite, ExtrasSound, TypeOK, Roles, AtKey
<1>3. ASSUME NEW a \in Agents, Lookup(a) PROVE ExtrasSound'
  BY <1>3 DEF Lookup, ExtrasSound, TypeOK, Roles, AtKey
<1>4. ASSUME NEW a \in Agents, StartCall(a) PROVE ExtrasSound'
  BY <1>4 DEF StartCall, Join, KeyStarted, ExtrasSound, TypeOK, Roles, AtKey
<1>5. ASSUME NEW a \in Agents, Insert(a) PROVE ExtrasSound'
  BY <1>5 DEF Insert, Join, KeyStarted, ExtrasSound, TypeOK, Roles, AtKey
<1>6. ASSUME NEW a \in Agents, Load(a) PROVE ExtrasSound'
  BY <1>6 DEF Load, Loaded, ToLoad, ExtrasSound, TypeOK, Roles, AtKey
<1>7. ASSUME NEW a \in Agents, EndLoad(a) PROVE ExtrasSound'
  BY <1>7 DEF EndLoad, ExtrasSound, TypeOK, Roles, AtKey
<1>8. ASSUME NEW a \in Agents, DeleteCall(a) PROVE ExtrasSound'
  BY <1>8 DEF DeleteCall, ExtrasSound, TypeOK, Roles, AtKey
<1>9. ASSUME NEW a \in Agents, Wait(a) PROVE ExtrasSound'
  BY <1>9 DEF Wait, ExtrasSound, TypeOK, Roles, AtKey
<1>10. ASSUME NEW a \in Agents, Finish(a) PROVE ExtrasSound'
  BY <1>10 DEF Finish, ExtrasSound, TypeOK, Roles, AtKey
<1>11. ASSUME NEW a \in Agents, Deregister(a) PROVE ExtrasSound'
  BY <1>11 DEF Deregister, ExtrasSound, TypeOK, Roles, AtKey
<1>12. ASSUME NEW a \in Agents, Update(a) PROVE ExtrasSound'
  BY <1>12 DEF Update, ExtrasSound, TypeOK, Roles, AtKey
<1>13. ASSUME NEW a \in Agents, Cancel(a) PROVE ExtrasSound'
  BY <1>13 DEF Cancel, ExtrasSound, TypeOK, Roles, AtKey
<1>14. ASSUME NEW a \in Agents, Lock(a) PROVE ExtrasSound'
  BY <1>14 DEF Lock, ExtrasSound, TypeOK, Roles, AtKey
<1>15. ASSUME NEW a \in Agents, DropCall(a) PROVE ExtrasSound'
  BY <1>15 DEF DropCall, ExtrasSound, TypeOK, Roles, AtKey
<1>16. ASSUME NEW a \in Agents, Write(a) PROVE ExtrasSound'
  BY <1>16 DEF Write, ExtrasSound, TypeOK, Roles, AtKey
<1>17. CASE Terminating \/ UNCHANGED vars
  BY <1>17 DEF Terminating, ExtrasSound
<1>18. QED
  BY <1>1, <1>2, <1>3, <1>4, <1>5, <1>6, <1>7, <1>8, <1>9,
     <1>10, <1>11, <1>12, <1>13, <1>14, <1>15, <1>16, <1>17 DEF Next, AgentStep, LoadStep, WriteStep

\* Update changes a key for a correct call, which is not obsolete, or for an extra; a writer has no call.
LEMMA NoStaleChangeStep ==
    ASSUME TypeOK, Roles, AtKey, CallsRecorded, Deregistering, SeenSound, SupersededSound, ExtrasSound,
           NoStaleChange, [Next]_vars
    PROVE  NoStaleChange'
<1>1. ASSUME NEW a \in Agents, BeginLoad(a) PROVE NoStaleChange'
  <2>1. op[a] = "none" /\ ~IsBulk(a) /\ \A b \in Agents : b # a => op'[b] = op[b]
    BY <1>1 DEF BeginLoad, Roles, TypeOK
  <2>2. UNCHANGED <<author, superseded, scenario>>
    BY <1>1 DEF BeginLoad
  <2>3. QED
    BY <2>1, <2>2 DEF NoStaleChange
<1>2. ASSUME NEW a \in Agents, BeginWrite(a) PROVE NoStaleChange'
  <2>1. op[a] = "none" /\ ~IsBulk(a) /\ \A b \in Agents : b # a => op'[b] = op[b]
    BY <1>2 DEF BeginWrite, Roles, TypeOK
  <2>2. UNCHANGED <<author, superseded, scenario>>
    BY <1>2 DEF BeginWrite
  <2>3. QED
    BY <2>1, <2>2 DEF NoStaleChange
<1>3. ASSUME NEW a \in Agents, Lookup(a) PROVE NoStaleChange'
  BY <1>3 DEF Lookup, NoStaleChange
<1>4. ASSUME NEW a \in Agents, StartCall(a) PROVE NoStaleChange'
  BY <1>4 DEF StartCall, Join, KeyStarted, NoStaleChange
<1>5. ASSUME NEW a \in Agents, Insert(a) PROVE NoStaleChange'
  BY <1>5 DEF Insert, Join, KeyStarted, NoStaleChange
<1>6. ASSUME NEW a \in Agents, Load(a) PROVE NoStaleChange'
  BY <1>6 DEF Load, Loaded, ToLoad, NoStaleChange
<1>7. ASSUME NEW a \in Agents, EndLoad(a) PROVE NoStaleChange'
  BY <1>7 DEF EndLoad, NoStaleChange
<1>8. ASSUME NEW a \in Agents, DeleteCall(a) PROVE NoStaleChange'
  BY <1>8 DEF DeleteCall, NoStaleChange
<1>9. ASSUME NEW a \in Agents, Wait(a) PROVE NoStaleChange'
  BY <1>9 DEF Wait, NoStaleChange
<1>10. ASSUME NEW a \in Agents, Finish(a) PROVE NoStaleChange'
  BY <1>10 DEF Finish, NoStaleChange
<1>11. ASSUME NEW a \in Agents, Deregister(a) PROVE NoStaleChange'
  BY <1>11 DEF Deregister, NoStaleChange
<1>12. ASSUME NEW a \in Agents, Update(a) PROVE NoStaleChange'
  <2>1. current[a] \in Keys /\ pc[a] = "update" /\ UNCHANGED <<superseded, op, scenario>>
    BY <1>12 DEF Update, AtKey
  <2>2. CASE Result(a, current[a]) = cached[current[a]]
    <3>1. author' = author
      BY <1>12, <2>2 DEF Update
    <3>2. QED
      BY <2>1, <3>1 DEF NoStaleChange
  <2>3. CASE Result(a, current[a]) # cached[current[a]]
    <3>1. author' = [author EXCEPT ![current[a]] = <<a, current[a] \notin batch[a]>>]
      BY <1>12, <2>3 DEF Update
    <3>2. current[a] \in batch[a] => correct[a]
      BY <2>3 DEF Result
    <3>3. current[a] \in batch[a] => <<a, current[a]>> \notin superseded
      BY <2>1, <3>2 DEF Deregistering
    <3>4. QED
      <4>1. current[a] \notin batch[a] => IsBulk(a) /\ scenario.extras
        BY <2>1 DEF ExtrasSound
      <4>2. QED
        BY <2>1, <3>1, <3>3, <4>1 DEF NoStaleChange, TypeOK
  <2>4. QED
    BY <2>2, <2>3
<1>13. ASSUME NEW a \in Agents, Cancel(a) PROVE NoStaleChange'
  BY <1>13 DEF Cancel, NoStaleChange
<1>14. ASSUME NEW a \in Agents, Lock(a) PROVE NoStaleChange'
  BY <1>14 DEF Lock, NoStaleChange
<1>15. ASSUME NEW a \in Agents, DropCall(a) PROVE NoStaleChange'
  BY <1>15 DEF DropCall, NoStaleChange
<1>16. ASSUME NEW a \in Agents, Write(a) PROVE NoStaleChange'
  <2>1. pc[a] = "write" /\ current[a] \in Keys /\ UNCHANGED <<op, scenario>>
    BY <1>16 DEF Write, AtKey
  <2>2. \A k \in Keys : <<a, k>> \notin superseded /\ <<a, k>> \notin seen[a]
    BY <2>1 DEF Roles, CallsRecorded, SupersededSound, SeenSound
  <2>3. CASE op[a] = "evict" /\ cached[current[a]] # target[a]
    <3>1. UNCHANGED <<author, superseded>>
      BY <1>16, <2>3 DEF Write
    <3>2. QED
      BY <2>1, <3>1 DEF NoStaleChange
  <2>4. CASE ~(op[a] = "evict" /\ cached[current[a]] # target[a])
    <3>1. /\ author' = [author EXCEPT ![current[a]] = <<a, FALSE>>]
          /\ superseded' = superseded \cup seen[a]
      BY <1>16, <2>4 DEF Write
    <3>2. \A c \in seen[a] : c[2] = current[a]
      BY DEF SeenSound
    <3>3. ASSUME NEW b \in Agents, NEW k \in Keys, author'[k] = <<b, FALSE>>
          PROVE  <<b, k>> \notin superseded'
      <4>1. CASE k = current[a]
        <5>1. b = a
          BY <3>1, <3>3, <4>1 DEF TypeOK
        <5>2. QED
          BY <2>2, <3>1, <5>1
      <4>2. CASE k # current[a]
        BY <3>1, <3>2, <3>3, <4>2 DEF NoStaleChange, TypeOK
      <4>3. QED
        BY <4>1, <4>2
    <3>4. ASSUME NEW b \in Agents, NEW k \in Keys, author'[k] = <<b, TRUE>>
          PROVE  (IsBulk(b) /\ scenario.extras)'
      <4>1. author[k] = <<b, TRUE>>
        BY <3>1, <3>4 DEF TypeOK
      <4>2. QED
        BY <2>1, <4>1 DEF NoStaleChange
    <3>5. QED
      BY <3>3, <3>4 DEF NoStaleChange
  <2>5. QED
    BY <2>3, <2>4
<1>17. CASE Terminating \/ UNCHANGED vars
  BY <1>17 DEF Terminating, NoStaleChange
<1>18. QED
  BY <1>1, <1>2, <1>3, <1>4, <1>5, <1>6, <1>7, <1>8, <1>9,
     <1>10, <1>11, <1>12, <1>13, <1>14, <1>15, <1>16, <1>17 DEF Next, AgentStep, LoadStep, WriteStep

\* A joined call is registered, so it was not obsolete when its agent began.
LEMMA NoStaleJoinStep ==
    ASSUME TypeOK, Roles, AtKey, CallsRecorded, SupersededSound, NoStaleJoin, [Next]_vars
    PROVE  NoStaleJoin'
<1>1. ASSUME NEW a \in Agents, BeginLoad(a) PROVE NoStaleJoin'
  <2>1. joined[a] = {}
    BY <1>1 DEF BeginLoad, Roles
  <2>2. QED
    BY <1>1, <2>1 DEF BeginLoad, NoStaleJoin, TypeOK
<1>2. ASSUME NEW a \in Agents, BeginWrite(a) PROVE NoStaleJoin'
  BY <1>2 DEF BeginWrite, NoStaleJoin
<1>3. ASSUME NEW a \in Agents, Lookup(a) PROVE NoStaleJoin'
  BY <1>3 DEF Lookup, NoStaleJoin
<1>4. ASSUME NEW a \in Agents, StartCall(a) PROVE NoStaleJoin'
  <2>1. StartCallDoes(a)
    BY <1>4, StartCallEffect
  <2>2. \A k \in Keys : <<registered[k], k>> \notin behind[a]
    BY DEF SupersededSound
  <2>3. joined'[a] \cap behind[a] = {}
    BY <2>1, <2>2 DEF StartCallDoes, NoStaleJoin, TypeOK
  <2>4. QED
    BY <2>1, <2>3 DEF StartCallDoes, NoStaleJoin
<1>5. ASSUME NEW a \in Agents, Insert(a) PROVE NoStaleJoin'
  <2>1. InsertDoes(a)
    BY <1>5, InsertEffect
  <2>2. <<registered[current[a]], current[a]>> \notin behind[a]
    BY <2>1 DEF SupersededSound, InsertDoes
  <2>3. joined'[a] \cap behind[a] = {}
    BY <2>1, <2>2 DEF InsertDoes, NoStaleJoin
  <2>4. QED
    BY <2>1, <2>3 DEF InsertDoes, NoStaleJoin
<1>6. ASSUME NEW a \in Agents, Load(a) PROVE NoStaleJoin'
  BY <1>6 DEF Load, Loaded, ToLoad, NoStaleJoin
<1>7. ASSUME NEW a \in Agents, EndLoad(a) PROVE NoStaleJoin'
  BY <1>7 DEF EndLoad, NoStaleJoin
<1>8. ASSUME NEW a \in Agents, DeleteCall(a) PROVE NoStaleJoin'
  BY <1>8 DEF DeleteCall, NoStaleJoin
<1>9. ASSUME NEW a \in Agents, Wait(a) PROVE NoStaleJoin'
  BY <1>9 DEF Wait, NoStaleJoin
<1>10. ASSUME NEW a \in Agents, Finish(a) PROVE NoStaleJoin'
  BY <1>10 DEF Finish, NoStaleJoin
<1>11. ASSUME NEW a \in Agents, Deregister(a) PROVE NoStaleJoin'
  BY <1>11 DEF Deregister, NoStaleJoin
<1>12. ASSUME NEW a \in Agents, Update(a) PROVE NoStaleJoin'
  BY <1>12 DEF Update, Result, NoStaleJoin
<1>13. ASSUME NEW a \in Agents, Cancel(a) PROVE NoStaleJoin'
  BY <1>13 DEF Cancel, NoStaleJoin
<1>14. ASSUME NEW a \in Agents, Lock(a) PROVE NoStaleJoin'
  BY <1>14 DEF Lock, NoStaleJoin
<1>15. ASSUME NEW a \in Agents, DropCall(a) PROVE NoStaleJoin'
  BY <1>15 DEF DropCall, NoStaleJoin
<1>16. ASSUME NEW a \in Agents, Write(a) PROVE NoStaleJoin'
  BY <1>16 DEF Write, NoStaleJoin
<1>17. CASE Terminating \/ UNCHANGED vars
  BY <1>17 DEF Terminating, NoStaleJoin
<1>18. QED
  BY <1>1, <1>2, <1>3, <1>4, <1>5, <1>6, <1>7, <1>8, <1>9,
     <1>10, <1>11, <1>12, <1>13, <1>14, <1>15, <1>16, <1>17 DEF Next, AgentStep, LoadStep, WriteStep

--------------------------------------------------------------------------------
(* The theorems *)

\* The invariant holds in the first state: nobody has done anything.
LEMMA InvInit == Init => Inv /\ NothingLeft
<1> SUFFICES ASSUME Init PROVE Inv /\ NothingLeft
  OBVIOUS
<1> USE DEF Init
<1>1. TypeOK
  <2>1. cached \in [Keys -> Nodes \cup {NoNode}] /\ author = cached
    <3>1. <<Nobody, FALSE>> \in Nodes
      OBVIOUS
    <3>2. QED
      BY <3>1
  <2>2. QED
    BY <2>1 DEF TypeOK
<1>2. Roles /\ AtKey /\ ExtrasSound /\ BucketHeld /\ Deregistering /\ NothingLeft
  BY DEF Roles, AtKey, ExtrasSound, BucketHeld, Deregistering, NothingLeft
<1>3. CallsRecorded /\ Outcomes
  BY DEF CallsRecorded, Outcomes
<1>4. SeenSound /\ SupersededSound /\ OpenRegistered /\ Dropped /\ NoStaleJoin
  BY DEF SeenSound, SupersededSound, OpenRegistered, Dropped, NoStaleJoin
<1>5. NoStaleChange
  <2>1. ASSUME NEW a \in Agents, NEW k \in Keys, NEW x \in BOOLEAN PROVE author[k] # <<a, x>>
    <3>1. author[k] \in {NoNode, <<Nobody, FALSE>>}
      OBVIOUS
    <3>2. <<a, x>> # <<Nobody, FALSE>>
      OBVIOUS
    <3>3. <<a, x>> # NoNode
      BY Len(<<a, x>>) = 2, Len(<<>>) = 0
    <3>4. QED
      BY <3>1, <3>2, <3>3
  <2>2. QED
    BY <2>1 DEF NoStaleChange
<1>6. QED
  BY <1>1, <1>2, <1>3, <1>4, <1>5 DEF Inv

\* Every step keeps the invariant.
LEMMA InvStep == Inv /\ [Next]_vars => Inv'
BY TypeStep, RolesStep, AtKeyStep, BucketHeldStep, CallsRecordedStep, OutcomesStep, DeregisteringStep,
   SeenSoundStep, SupersededSoundStep, OpenRegisteredStep, DroppedStep, ExtrasSoundStep, NoStaleChangeStep,
   NoStaleJoinStep
   DEF Inv

\* The invariant holds always.
LEMMA Invariant == Spec => []Inv
BY InvInit, InvStep, PTL DEF Spec

\* A registered call never undoes a later write: for a key it was asked for, a load
\* changes the map (afterDeleteCall) only if no write of the key has made its call
\* obsolete.  Of extra keys, which have no call, nothing of the kind is true; the theorem
\* says that they come from bulk loaders that may return them, and from nowhere else.
THEOREM CallsNeverUndoWrites == Spec => []NoStaleChange
<1>1. Inv => NoStaleChange
  BY DEF Inv
<1>2. QED
  BY Invariant, <1>1, PTL

\* Whoever begins after a write has returned does not join a load from before it.
THEOREM LoadsJoinedAreFresh == Spec => []NoStaleJoin
<1>1. Inv => NoStaleJoin
  BY DEF Inv
<1>2. QED
  BY Invariant, <1>1, PTL

\* What has been loaded gets into the map, unless the key was written, or the
\* call cancelled by an eviction.
THEOREM LoadedValuesCached == Spec => []LoadsAreCached
<1>1. Inv => LoadsAreCached
  <2> SUFFICES ASSUME Inv, NEW c \in finished, outcome[c] = "value"
               PROVE  \/ c \in installed \cup overtaken
                      \/ \E w \in Agents : op[w] = "evict" /\ c \in seen[w]
    BY DEF LoadsAreCached
  <2>1. PICK a \in Agents, k \in Keys : c = <<a, k>>
    BY DEF Inv, TypeOK
  <2>2. <<a, k>> \in calls /\ registered[k] # a /\ k \notin batch[a]
    BY <2>1 DEF Inv, CallsRecorded
  <2>3. ~Unsettled(a, k)
    BY <2>1 DEF Inv, CallsRecorded, Unsettled
  <2>4. QED
    BY <2>1, <2>2, <2>3 DEF Inv, Dropped
<1>2. QED
  BY Invariant, <1>1, PTL

\* One load per key, unless a write or an eviction has come in between; and every
\* registered or awaited call has an owner that will finish it and does not wait.
THEOREM CallTableSound == NoSurvivedPanic => (Spec => []CallsSound)
<1> SUFFICES ASSUME NoSurvivedPanic PROVE Spec => []CallsSound
  OBVIOUS
<1>1. Init => NothingLeft
  BY InvInit
<1>2. Inv /\ NothingLeft /\ [Next]_vars => NothingLeft'
  BY NothingLeftStep DEF Inv
<1>3. Inv => TypeOK
  BY DEF Inv
<1>4. Inv => SingleFlight
  <2> SUFFICES ASSUME Inv, NEW k \in Keys, NEW c \in CallsOf(k), NEW d \in CallsOf(k),
                      outcome[c] = "none", outcome[d] = "none", c # d
               PROVE  \E w \in Agents : pc[w] \in {"write", "done"} /\ {c, d} \cap seen[w] # {}
    BY DEF SingleFlight
  <2>1. PICK a \in Agents, b \in Agents : c = <<a, k>> /\ d = <<b, k>>
    BY DEF Inv, TypeOK
  <2>2. registered[k] # a \/ registered[k] # b
    BY <2>1
  <2>3. QED
    BY <2>1, <2>2 DEF Inv, OpenRegistered
<1>5. Inv /\ NothingLeft => CallsAttended
  <2> SUFFICES ASSUME Inv, NothingLeft, NEW a \in Agents, NEW k \in Keys,
                      registered[k] = a \/ (\E b \in Agents : <<a, k>> \in joined[b] \ finished)
               PROVE  k \in owned[a] \cup batch[a] /\ pc[a] \notin {"wait", "done"}
    BY DEF CallsAttended
  <2>1. <<a, k>> \in calls \ finished
    BY DEF Inv, CallsRecorded
  <2>2. k \in owned[a] \cup batch[a]
    BY <2>1 DEF Inv, CallsRecorded
  <2>3. pc[a] \in {"wait", "done"} => owned[a] = {} /\ batch[a] = {}
    BY DEF Inv, AtKey, NothingLeft
  <2>4. QED
    BY <2>2, <2>3
<1>6. QED
  BY Invariant, <1>1, <1>2, <1>3, <1>4, <1>5, PTL DEF Spec, CallsSound

=============================================================================
