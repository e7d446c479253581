----------------------------- MODULE AtomicStore -----------------------------
(***************************************************************************)
(* What AgentLatch promises its agents: a store on which every operation is *)
(* applied at most once and in one indivisible step, which reads the store  *)
(* as it is and writes it.  There are no leases, versions, attempts or runs *)
(* here; the log tells what each operation read and wrote.                  *)
(***************************************************************************)
EXTENDS Sequences, Naturals

CONSTANTS Key, Content, Operation

VARIABLES
  store,     \* key -> content, for the keys that exist
  log        \* the operations applied so far

Tables == UNION {[K -> Content] : K \in SUBSET Key}

Init == store \in Tables /\ log = <<>>

Create(key, content) ==
  /\ key \notin DOMAIN store
  /\ store' = [k \in DOMAIN store \union {key} |-> IF k = key THEN content ELSE store[k]]
  /\ UNCHANGED log

Apply(operation, keys, writes) ==
  /\ \A i \in DOMAIN log : log[i].operation # operation
  /\ keys \subseteq DOMAIN store
  /\ DOMAIN writes \subseteq keys
  /\ store' = [k \in DOMAIN store |-> IF k \in DOMAIN writes THEN writes[k] ELSE store[k]]
  /\ log' = Append(log, [operation |-> operation, read |-> [k \in keys |-> store[k]],
                         written |-> writes])

Next ==
  \/ \E key \in Key, content \in Content : Create(key, content)
  \/ \E operation \in Operation, keys \in SUBSET Key, writes \in Tables :
       Apply(operation, keys, writes)

Spec == Init /\ [][Next]_<<store, log>>
=============================================================================
