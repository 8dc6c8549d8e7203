--------------------------- MODULE NonceSequences ---------------------------
(***************************************************************************)
(* What the miners promise about the sequences of nonces they scan: one    *)
(* begins with each new work and after each rejection, and with nothing    *)
(* else; a rejection is owed a new sequence until its miner has left the   *)
(* one it was in and acknowledged that; no share is found between leaving  *)
(* and acknowledging, when a rejection could no longer be told from one    *)
(* that is answered already.                                               *)
(***************************************************************************)
CONSTANTS Miners, Shares, Hashes, NoHash

VARIABLES
  work,      (* each miner: the hash of the work its sequence is for        *)
  finder,    (* the miner of every share that has been found                *)
  open,      (* the shares found in the sequences the miners are in         *)
  rejected,  (* the shares that were rejected                               *)
  owed,      (* the miners that owe a new sequence                          *)
  leaving    (* those of them that have left their sequence                 *)

sequenceVars == <<work, finder, open, rejected, owed, leaving>>

SequenceInit ==
  /\ work = [m \in Miners |-> NoHash]
  /\ finder = [s \in {} |-> s]
  /\ open = {}
  /\ rejected = {}
  /\ owed = {}
  /\ leaving = {}

FoundBy(m) == {s \in DOMAIN finder : finder[s] = m}

NewWork(m, h) ==
  /\ m \notin leaving
  /\ h \notin {NoHash, work[m]}
  /\ work' = [work EXCEPT ![m] = h]
  /\ open' = open \ FoundBy(m)
  /\ UNCHANGED <<finder, rejected, owed, leaving>>

Find(m, s) ==
  /\ m \notin leaving
  /\ work[m] # NoHash
  /\ s \notin DOMAIN finder
  /\ finder' = [x \in DOMAIN finder \cup {s} |-> IF x = s THEN m ELSE finder[x]]
  /\ open' = open \cup {s}
  /\ UNCHANGED <<work, rejected, owed, leaving>>

Reject(s) ==
  /\ s \in DOMAIN finder \ rejected
  /\ rejected' = rejected \cup {s}
  /\ owed' = owed \cup {finder[s]}
  /\ UNCHANGED <<work, finder, open, leaving>>

Leave(m) ==
  /\ m \in owed \ leaving
  /\ open' = open \ FoundBy(m)
  /\ leaving' = leaving \cup {m}
  /\ UNCHANGED <<work, finder, rejected, owed>>

Acknowledge(m) ==
  /\ m \in leaving
  /\ owed' = owed \ {m}
  /\ leaving' = leaving \ {m}
  /\ UNCHANGED <<work, finder, open, rejected>>

SequenceNext ==
  \/ \E m \in Miners : \/ \E h \in Hashes : NewWork(m, h)
                       \/ \E s \in Shares : Find(m, s)
                       \/ Leave(m)
                       \/ Acknowledge(m)
  \/ \E s \in Shares : Reject(s)

SequenceSpec == SequenceInit /\ [][SequenceNext]_sequenceVars
=============================================================================
