--------------------------- MODULE AuditSigningProofs ---------------------------
(***************************************************************************)
(* Signing under the audit, for every number of wallets and requests,      *)
(* every assignment of keys and identities and every size of the pool.     *)
(*                                                                         *)
(* A step mostly belongs to one signing, so the invariant is a statement   *)
(* about each signing by itself, SigningOK(w), and a step need only be     *)
(* looked at where it happens (OneSigning); Respond, Disconnect and Crash, *)
(* which touch many, are the exception.  The heart of it is EvidenceOwed:  *)
(* as long as an attempt lacks its evidence, a worker or the guard's task  *)
(* is alive that will write it, or the signing is one the store or a crash *)
(* failed.  It needs EffectOK to know which worker saw what, and SlotOwned *)
(* and ScopeOK for what a dropped future leaves behind.                    *)
(***************************************************************************)
EXTENDS AuditSigning, FiniteSetTheorems, TLAPS

\* The step leaves signing v alone.
Same(v) ==
  /\ tx'[v] = tx[v] /\ scope'[v] = scope[v] /\ evidence'[v] = evidence[v]
  /\ caller'[v] = caller[v] /\ result'[v] = result[v]
  /\ worker'[v] = worker[v] /\ effect'[v] = effect[v] /\ guard'[v] = guard[v]
  /\ v \in attempts' <=> v \in attempts
  /\ v \in spoilt' <=> v \in spoilt
  /\ <<v, "effect">> \in slots' <=> <<v, "effect">> \in slots
  /\ <<v, "guard">> \in slots' <=> <<v, "guard">> \in slots

\* A signing the step leaves alone stays well.
LEMMA SameKeeps == ASSUME NEW v \in Signings, Same(v), SigningOK(v) PROVE SigningOK(v)'
BY DEF Same, SigningOK, ScopeOK, EffectOK, AnswerOK, SlotOwned, EvidenceOwed

\* A slot given back never overfills the pool.
LEMMA SlotsShrink ==
  ASSUME SlotsBounded, slots' \subseteq slots, Capacity \in Nat
  PROVE  SlotsBounded'
<1>1. IsFiniteSet(slots') /\ Cardinality(slots') <= Cardinality(slots)
  BY FS_Subset DEF SlotsBounded
<1>2. Cardinality(slots) \in Nat /\ Cardinality(slots') \in Nat
  BY <1>1, FS_CardinalityType DEF SlotsBounded
<1>. QED BY <1>1, <1>2 DEF SlotsBounded

\* What one write of evidence, seen or not, does to the store.
Written(w, kind, answered) ==
  /\ evidence' \in [Signings -> SUBSET Kinds]
  /\ \A v \in Signings \ {w} : evidence'[v] = evidence[v]
  /\ evidence[w] \subseteq evidence'[w] /\ evidence'[w] \subseteq evidence[w] \cup {kind}
  /\ answered => kind \in evidence'[w]
  /\ spoilt' \in SUBSET Signings
  /\ \A v \in Signings \ {w} : v \in spoilt' <=> v \in spoilt
  /\ w \in spoilt' <=> w \in spoilt \/ ~ answered
  /\ attempts' = attempts /\ count' = count /\ tx' = tx /\ input' = input

\* And what the mark does to the wallet scopes.
Marked(w, answered) ==
  /\ scope' \in [Signings -> {"none", "open", "recorded"}]
  /\ \A v \in Signings \ {w} : scope'[v] = scope[v]
  /\ answered => scope'[w] = "recorded"
  /\ ~ answered => scope'[w] = scope[w]

\* One store.record, answered or not.
LEMMA EvidenceWrites ==
  ASSUME TypeOK, NEW w \in Signings, NEW kind \in Kinds, NEW answered \in BOOLEAN,
         Evidence(w, kind, answered)
  PROVE  Written(w, kind, answered)
<1>. USE DEF TypeOK
<1>1. CASE answered
  <2>1. evidence' = [evidence EXCEPT ![w] = @ \cup {kind}] /\ spoilt' = spoilt
    BY <1>1 DEF Evidence
  <2>. QED BY <1>1, <2>1 DEF Written, Evidence
<1>2. CASE ~ answered
  <2>1. /\ evidence' = [evidence EXCEPT ![w] = @ \cup {kind}] \/ evidence' = evidence
        /\ spoilt' = spoilt \cup {w}
    BY <1>2 DEF Evidence
  <2>2. CASE evidence' = [evidence EXCEPT ![w] = @ \cup {kind}]
    BY <1>2, <2>1, <2>2 DEF Written, Evidence
  <2>3. CASE evidence' = evidence
    BY <1>2, <2>1, <2>3 DEF Written, Evidence
  <2>. QED BY <2>1, <2>2, <2>3
<1>. QED BY <1>1, <1>2

\* The same, with the mark in the scope.
LEMMA RecordWrites ==
  ASSUME TypeOK, NEW w \in Signings, NEW kind \in Kinds, NEW answered \in BOOLEAN,
         Record(w, kind, answered)
  PROVE  Written(w, kind, answered) /\ Marked(w, answered)
<1>1. Written(w, kind, answered)
  BY EvidenceWrites DEF Record
<1>2. CASE answered
  <2>1. scope' = [scope EXCEPT ![w] = "recorded"]
    BY <1>2 DEF Record
  <2>2. scope \in [Signings -> {"none", "open", "recorded"}]
    BY DEF TypeOK
  <2>. QED BY <1>1, <1>2, <2>1, <2>2 DEF Marked
<1>3. CASE ~ answered
  <2>1. scope' = scope
    BY <1>3 DEF Record
  <2>2. scope \in [Signings -> {"none", "open", "recorded"}]
    BY DEF TypeOK
  <2>. QED BY <1>1, <1>3, <2>1, <2>2 DEF Marked
<1>. QED BY <1>1, <1>2, <1>3

\* A step of one signing keeps the invariant if that signing is left well.
LEMMA OneSigning ==
  ASSUME SigningInv, NEW w \in Signings, TypeOK', SlotsBounded', reply' = reply,
         \A v \in Signings \ {w} : Same(v), SigningOK(w)',
         caller[w] \in Finished => caller'[w] = caller[w]
  PROVE  SigningInv'
<1>1. \A v \in Signings : SigningOK(v)'
  <2>. SUFFICES ASSUME NEW v \in Signings PROVE SigningOK(v)'
    OBVIOUS
  <2>1. CASE v = w
    BY <2>1
  <2>2. CASE v # w
    BY <2>2, SameKeeps DEF SigningInv
  <2>. QED BY <2>1, <2>2
<1>2. EffectAfterCommit' /\ EvidenceIsTrue'
  BY <1>1 DEF SigningOK, ScopeOK, EffectOK, EffectAfterCommit, EvidenceIsTrue
<1>3. RepliesOK'
  <2>. SUFFICES ASSUME NEW q \in Requests, NEW v \in Members(q)
                PROVE  /\ reply[q] # "pending" => caller'[v] \in Finished
                       /\ reply[q] = "ok" => caller'[v] = "ok"
    BY DEF RepliesOK
  <2>1. v \in Signings
    BY SigningsAssumption DEF Members
  <2>2. /\ reply[q] # "pending" => caller[v] \in Finished
        /\ reply[q] = "ok" => caller[v] = "ok"
    BY DEF SigningInv, RepliesOK
  <2>3. caller[v] \in Finished => caller'[v] = caller[v]
    BY <2>1 DEF Same
  <2>. QED BY <2>2, <2>3 DEF Finished
<1>. QED BY <1>1, <1>2, <1>3 DEF SigningInv

\* The begin transaction commits or refuses.
LEMMA DbBeginStep == ASSUME SigningInv, NEW w \in Signings, DbBegin(w) PROVE SigningInv'
<1>. USE SigningsAssumption DEF SigningInv, TypeOK, store
<1>1. CASE /\ tx' = [tx EXCEPT ![w] = "committed"]
          /\ attempts' = attempts \cup {w} /\ count' = count + 1
  <2>1. TypeOK'
    BY <1>1 DEF DbBegin, Kinds
  <2>2. \A v \in Signings \ {w} : Same(v)
    BY <1>1 DEF DbBegin, Same
  <2>3. SlotsBounded'
    <3>1. slots' \subseteq slots
      BY <1>1 DEF DbBegin
    <3>. QED BY <3>1, SlotsShrink
  <2>4. reply' = reply /\ (caller[w] \in Finished => caller'[w] = caller[w])
    BY <1>1 DEF DbBegin, Finished
  <2>5. SigningOK(w)'
    <3>. USE DEF SigningOK, ScopeOK, EffectOK, AnswerOK, DbBegin
    <3>1. ScopeOK(w)'
      BY <1>1 DEF ScopeOK, Finished
    <3>2. EffectOK(w)'
      BY <1>1 DEF EffectOK, Finished
    <3>3. AnswerOK(w)'
      BY <1>1 DEF AnswerOK, Finished
    <3>4. SlotOwned(w)'
      BY <1>1 DEF SlotOwned, Finished
    <3>5. EvidenceOwed(w)'
      BY <1>1 DEF EvidenceOwed, Finished
    <3>. QED BY <3>1, <3>2, <3>3, <3>4, <3>5
  <2>. QED BY <2>1, <2>2, <2>3, <2>4, <2>5, OneSigning
<1>2. CASE /\ tx' = [tx EXCEPT ![w] = "refused"]
          /\ UNCHANGED <<intents, attempts, count>>
  <2>1. TypeOK'
    BY <1>2 DEF DbBegin, Kinds
  <2>2. \A v \in Signings \ {w} : Same(v)
    BY <1>2 DEF DbBegin, Same
  <2>3. SlotsBounded'
    <3>1. slots' \subseteq slots
      BY <1>2 DEF DbBegin
    <3>. QED BY <3>1, SlotsShrink
  <2>4. reply' = reply /\ (caller[w] \in Finished => caller'[w] = caller[w])
    BY <1>2 DEF DbBegin, Finished
  <2>5. SigningOK(w)'
    <3>. USE DEF SigningOK, ScopeOK, EffectOK, AnswerOK, DbBegin
    <3>1. ScopeOK(w)'
      BY <1>2 DEF ScopeOK, Finished
    <3>2. EffectOK(w)'
      BY <1>2 DEF EffectOK, Finished
    <3>3. AnswerOK(w)'
      BY <1>2 DEF AnswerOK, Finished
    <3>4. SlotOwned(w)'
      BY <1>2 DEF SlotOwned, Finished
    <3>5. EvidenceOwed(w)'
      BY <1>2 DEF EvidenceOwed, Finished
    <3>. QED BY <3>1, <3>2, <3>3, <3>4, <3>5
  <2>. QED BY <2>1, <2>2, <2>3, <2>4, <2>5, OneSigning
<1>. QED BY <1>1, <1>2 DEF DbBegin

\* The attempt is known, and the effect is handed over or done.
LEMMA BegunStep == ASSUME SigningInv, NEW w \in Signings, Begun(w) PROVE SigningInv'
<1>. USE SigningsAssumption DEF SigningInv, TypeOK, store
<1>1. CASE /\ worker' = [worker EXCEPT ![w] = "spawned"]
           /\ caller' = [caller EXCEPT ![w] = "await"]
           /\ Kind[w] = "kms"
           /\ UNCHANGED <<effect, result>>
  <2>1. TypeOK'
    BY <1>1 DEF Begun, Armed, Kinds
  <2>2. \A v \in Signings \ {w} : Same(v)
    BY <1>1 DEF Begun, Armed, Same
  <2>3. SlotsBounded'
    <3>1. slots' \subseteq slots
      BY <1>1 DEF Begun, Armed
    <3>. QED BY <3>1, SlotsShrink
  <2>4. reply' = reply /\ (caller[w] \in Finished => caller'[w] = caller[w])
    BY <1>1 DEF Begun, Armed, Finished
  <2>5. SigningOK(w)'
    <3>. USE DEF SigningOK, ScopeOK, EffectOK, AnswerOK, Begun, Armed
    <3>1. ScopeOK(w)'
      BY <1>1 DEF ScopeOK, Finished
    <3>2. EffectOK(w)'
      BY <1>1 DEF EffectOK, Finished
    <3>3. AnswerOK(w)'
      BY <1>1 DEF AnswerOK, Finished
    <3>4. SlotOwned(w)'
      BY <1>1 DEF SlotOwned, Finished
    <3>5. EvidenceOwed(w)'
      BY <1>1 DEF EvidenceOwed, Finished
    <3>. QED BY <3>1, <3>2, <3>3, <3>4, <3>5
  <2>. QED BY <2>1, <2>2, <2>3, <2>4, <2>5, OneSigning
<1>2. CASE /\ caller' = [caller EXCEPT ![w] = "external"]
           /\ effect' = [effect EXCEPT ![w] = "signed"]
           /\ Kind[w] = "local"
           /\ UNCHANGED <<worker, result>>
  <2>1. TypeOK'
    BY <1>2 DEF Begun, Armed, Kinds
  <2>2. \A v \in Signings \ {w} : Same(v)
    BY <1>2 DEF Begun, Armed, Same
  <2>3. SlotsBounded'
    <3>1. slots' \subseteq slots
      BY <1>2 DEF Begun, Armed
    <3>. QED BY <3>1, SlotsShrink
  <2>4. reply' = reply /\ (caller[w] \in Finished => caller'[w] = caller[w])
    BY <1>2 DEF Begun, Armed, Finished
  <2>5. SigningOK(w)'
    <3>. USE DEF SigningOK, ScopeOK, EffectOK, AnswerOK, Begun, Armed
    <3>1. ScopeOK(w)'
      BY <1>2 DEF ScopeOK, Finished
    <3>2. EffectOK(w)'
      BY <1>2 DEF EffectOK, Finished
    <3>3. AnswerOK(w)'
      BY <1>2 DEF AnswerOK, Finished
    <3>4. SlotOwned(w)'
      BY <1>2 DEF SlotOwned, Finished
    <3>5. EvidenceOwed(w)'
      BY <1>2 DEF EvidenceOwed, Finished
    <3>. QED BY <3>1, <3>2, <3>3, <3>4, <3>5
  <2>. QED BY <2>1, <2>2, <2>3, <2>4, <2>5, OneSigning
<1>3. CASE /\ caller' = [caller EXCEPT ![w] = "wrap"]
           /\ effect' = [effect EXCEPT ![w] = "failed"]
           /\ result' = [result EXCEPT ![w] = "err"]
           /\ Kind[w] = "local"
           /\ UNCHANGED worker
  <2>1. TypeOK'
    BY <1>3 DEF Begun, Armed, Kinds
  <2>2. \A v \in Signings \ {w} : Same(v)
    BY <1>3 DEF Begun, Armed, Same
  <2>3. SlotsBounded'
    <3>1. slots' \subseteq slots
      BY <1>3 DEF Begun, Armed
    <3>. QED BY <3>1, SlotsShrink
  <2>4. reply' = reply /\ (caller[w] \in Finished => caller'[w] = caller[w])
    BY <1>3 DEF Begun, Armed, Finished
  <2>5. SigningOK(w)'
    <3>. USE DEF SigningOK, ScopeOK, EffectOK, AnswerOK, Begun, Armed
    <3>1. ScopeOK(w)'
      BY <1>3 DEF ScopeOK, Finished
    <3>2. EffectOK(w)'
      BY <1>3 DEF EffectOK, Finished
    <3>3. AnswerOK(w)'
      BY <1>3 DEF AnswerOK, Finished
    <3>4. SlotOwned(w)'
      BY <1>3 DEF SlotOwned, Finished
    <3>5. EvidenceOwed(w)'
      BY <1>3 DEF EvidenceOwed, Finished
    <3>. QED BY <3>1, <3>2, <3>3, <3>4, <3>5
  <2>. QED BY <2>1, <2>2, <2>3, <2>4, <2>5, OneSigning
<1>. QED BY <1>1, <1>2, <1>3 DEF Begun, Armed

\* The caller gives up on begin; the transaction may still commit.
LEMMA BeginFailsStep ==
  ASSUME SigningInv, NEW w \in Signings, BeginFails(w)
  PROVE  SigningInv'
<1>. USE SigningsAssumption DEF SigningInv, TypeOK, store
<1>1. TypeOK'
  BY DEF BeginFails, Kinds
<1>2. \A v \in Signings \ {w} : Same(v)
  BY DEF BeginFails, Same
<1>3. SlotsBounded'
  <2>1. slots' \subseteq slots
    BY DEF BeginFails
  <2>. QED BY <2>1, SlotsShrink
<1>4. reply' = reply /\ (caller[w] \in Finished => caller'[w] = caller[w])
  BY DEF BeginFails, Finished
<1>5. SigningOK(w)'
  <2>. USE DEF SigningOK, ScopeOK, EffectOK, AnswerOK, BeginFails
  <2>1. ScopeOK(w)'
    BY DEF ScopeOK, Finished
  <2>2. EffectOK(w)'
    BY DEF EffectOK, Finished
  <2>3. AnswerOK(w)'
    BY DEF AnswerOK, Finished
  <2>4. SlotOwned(w)'
    <3>1. <<w, "effect">> # <<w, "guard">>
      OBVIOUS
    <3>2. /\ <<w, "effect">> \notin slots'
          /\ <<w, "guard">> \in slots' => <<w, "guard">> \in slots
      BY <3>1 DEF BeginFails
    <3>3. worker'[w] = "none" /\ caller'[w] # "begin" /\ guard'[w] = guard[w]
      BY DEF BeginFails
    <3>. QED BY <3>2, <3>3 DEF SlotOwned
  <2>5. EvidenceOwed(w)'
    BY DEF EvidenceOwed, Finished
  <2>. QED BY <2>1, <2>2, <2>3, <2>4, <2>5
<1>. QED BY <1>1, <1>2, <1>3, <1>4, <1>5, OneSigning

\* The local signer records its signature.
LEMMA LocalReturnedStep ==
  ASSUME SigningInv, NEW w \in Signings, NEW answered \in BOOLEAN, LocalReturned(w, answered)
  PROVE  SigningInv'
<1>. USE SigningsAssumption DEF SigningInv, TypeOK, store
<1>0. Written(w, "external", answered) /\ Marked(w, answered)
  <2>1. Record(w, "external", answered)
    BY DEF LocalReturned
  <2>. QED BY <2>1, RecordWrites DEF Kinds
<1>1. CASE answered
  <2>1. TypeOK'
    BY <1>0, <1>1 DEF LocalReturned, Written, Marked, Kinds
  <2>2. \A v \in Signings \ {w} : Same(v)
    BY <1>0, <1>1 DEF LocalReturned, Written, Marked, Same
  <2>3. SlotsBounded'
    <3>1. slots' \subseteq slots
      BY <1>0, <1>1 DEF LocalReturned, Written, Marked
    <3>. QED BY <3>1, SlotsShrink
  <2>4. reply' = reply /\ (caller[w] \in Finished => caller'[w] = caller[w])
    BY <1>0, <1>1 DEF LocalReturned, Written, Marked, Finished
  <2>5. SigningOK(w)'
    <3>. USE DEF SigningOK, ScopeOK, EffectOK, AnswerOK, LocalReturned, Written, Marked
    <3>1. ScopeOK(w)'
      BY <1>0, <1>1 DEF ScopeOK, Finished
    <3>2. EffectOK(w)'
      BY <1>0, <1>1 DEF EffectOK, Finished
    <3>3. AnswerOK(w)'
      BY <1>0, <1>1 DEF AnswerOK, Finished
    <3>4. SlotOwned(w)'
      BY <1>0, <1>1 DEF SlotOwned, Finished
    <3>5. EvidenceOwed(w)'
      BY <1>0, <1>1 DEF EvidenceOwed, Finished
    <3>. QED BY <3>1, <3>2, <3>3, <3>4, <3>5
  <2>. QED BY <2>1, <2>2, <2>3, <2>4, <2>5, OneSigning
<1>2. CASE ~ answered
  <2>1. TypeOK'
    BY <1>0, <1>2 DEF LocalReturned, Written, Marked, Kinds
  <2>2. \A v \in Signings \ {w} : Same(v)
    BY <1>0, <1>2 DEF LocalReturned, Written, Marked, Same
  <2>3. SlotsBounded'
    <3>1. slots' \subseteq slots
      BY <1>0, <1>2 DEF LocalReturned, Written, Marked
    <3>. QED BY <3>1, SlotsShrink
  <2>4. reply' = reply /\ (caller[w] \in Finished => caller'[w] = caller[w])
    BY <1>0, <1>2 DEF LocalReturned, Written, Marked, Finished
  <2>5. SigningOK(w)'
    <3>. USE DEF SigningOK, ScopeOK, EffectOK, AnswerOK, LocalReturned, Written, Marked
    <3>1. ScopeOK(w)'
      BY <1>0, <1>2 DEF ScopeOK, Finished
    <3>2. EffectOK(w)'
      BY <1>0, <1>2 DEF EffectOK, Finished
    <3>3. AnswerOK(w)'
      BY <1>0, <1>2 DEF AnswerOK, Finished
    <3>4. SlotOwned(w)'
      BY <1>0, <1>2 DEF SlotOwned, Finished
    <3>5. EvidenceOwed(w)'
      BY <1>0, <1>2 DEF EvidenceOwed, Finished
    <3>. QED BY <3>1, <3>2, <3>3, <3>4, <3>5
  <2>. QED BY <2>1, <2>2, <2>3, <2>4, <2>5, OneSigning
<1>. QED BY <1>1, <1>2 DEF LocalReturned

\* The caller stops waiting for its worker.
LEMMA AwaitExpiresStep ==
  ASSUME SigningInv, NEW w \in Signings, AwaitExpires(w)
  PROVE  SigningInv'
<1>. USE SigningsAssumption DEF SigningInv, TypeOK, store
<1>1. TypeOK'
  BY DEF AwaitExpires, Kinds
<1>2. \A v \in Signings \ {w} : Same(v)
  BY DEF AwaitExpires, Same
<1>3. SlotsBounded'
  <2>1. slots' \subseteq slots
    BY DEF AwaitExpires
  <2>. QED BY <2>1, SlotsShrink
<1>4. reply' = reply /\ (caller[w] \in Finished => caller'[w] = caller[w])
  BY DEF AwaitExpires, Finished
<1>5. SigningOK(w)'
  <2>. USE DEF SigningOK, ScopeOK, EffectOK, AnswerOK, AwaitExpires
  <2>1. ScopeOK(w)'
    BY DEF ScopeOK, Finished
  <2>2. EffectOK(w)'
    BY DEF EffectOK, Finished
  <2>3. AnswerOK(w)'
    BY DEF AnswerOK, Finished
  <2>4. SlotOwned(w)'
    BY DEF SlotOwned, Finished
  <2>5. EvidenceOwed(w)'
    BY DEF EvidenceOwed, Finished
  <2>. QED BY <2>1, <2>2, <2>3, <2>4, <2>5
<1>. QED BY <1>1, <1>2, <1>3, <1>4, <1>5, OneSigning

\* The guard's task writes the evidence it owes.
LEMMA GuardRecordsStep ==
  ASSUME SigningInv, NEW w \in Signings, NEW answered \in BOOLEAN, GuardRecords(w, answered)
  PROVE  SigningInv'
<1>. USE SigningsAssumption DEF SigningInv, TypeOK, store
<1>0. Written(w, "unknown", answered)
  <2>1. Evidence(w, "unknown", answered)
    BY DEF GuardRecords
  <2>. QED BY <2>1, EvidenceWrites DEF Kinds
<1>1. CASE answered
  <2>1. TypeOK'
    BY <1>0, <1>1 DEF GuardRecords, Written, Marked, Kinds
  <2>2. \A v \in Signings \ {w} : Same(v)
    BY <1>0, <1>1 DEF GuardRecords, Written, Marked, Same
  <2>3. SlotsBounded'
    <3>1. slots' \subseteq slots
      BY <1>0, <1>1 DEF GuardRecords, Written, Marked
    <3>. QED BY <3>1, SlotsShrink
  <2>4. reply' = reply /\ (caller[w] \in Finished => caller'[w] = caller[w])
    BY <1>0, <1>1 DEF GuardRecords, Written, Marked, Finished
  <2>5. SigningOK(w)'
    <3>. USE DEF SigningOK, ScopeOK, EffectOK, AnswerOK, GuardRecords, Written, Marked
    <3>1. ScopeOK(w)'
      BY <1>0, <1>1 DEF ScopeOK, Finished
    <3>2. EffectOK(w)'
      BY <1>0, <1>1 DEF EffectOK, Finished
    <3>3. AnswerOK(w)'
      BY <1>0, <1>1 DEF AnswerOK, Finished
    <3>4. SlotOwned(w)'
      BY <1>0, <1>1 DEF SlotOwned, Finished
    <3>5. EvidenceOwed(w)'
      BY <1>0, <1>1 DEF EvidenceOwed, Finished
    <3>. QED BY <3>1, <3>2, <3>3, <3>4, <3>5
  <2>. QED BY <2>1, <2>2, <2>3, <2>4, <2>5, OneSigning
<1>2. CASE ~ answered
  <2>1. TypeOK'
    BY <1>0, <1>2 DEF GuardRecords, Written, Marked, Kinds
  <2>2. \A v \in Signings \ {w} : Same(v)
    BY <1>0, <1>2 DEF GuardRecords, Written, Marked, Same
  <2>3. SlotsBounded'
    <3>1. slots' \subseteq slots
      BY <1>0, <1>2 DEF GuardRecords, Written, Marked
    <3>. QED BY <3>1, SlotsShrink
  <2>4. reply' = reply /\ (caller[w] \in Finished => caller'[w] = caller[w])
    BY <1>0, <1>2 DEF GuardRecords, Written, Marked, Finished
  <2>5. SigningOK(w)'
    <3>. USE DEF SigningOK, ScopeOK, EffectOK, AnswerOK, GuardRecords, Written, Marked
    <3>1. ScopeOK(w)'
      BY <1>0, <1>2 DEF ScopeOK, Finished
    <3>2. EffectOK(w)'
      BY <1>0, <1>2 DEF EffectOK, Finished
    <3>3. AnswerOK(w)'
      BY <1>0, <1>2 DEF AnswerOK, Finished
    <3>4. SlotOwned(w)'
      BY <1>0, <1>2 DEF SlotOwned, Finished
    <3>5. EvidenceOwed(w)'
      BY <1>0, <1>2 DEF EvidenceOwed, Finished
    <3>. QED BY <3>1, <3>2, <3>3, <3>4, <3>5
  <2>. QED BY <2>1, <2>2, <2>3, <2>4, <2>5, OneSigning
<1>. QED BY <1>1, <1>2 DEF GuardRecords

\* The worker looks whether somebody waits.
LEMMA WorkerStartStep ==
  ASSUME SigningInv, NEW w \in Signings, WorkerStart(w)
  PROVE  SigningInv'
<1>. USE SigningsAssumption DEF SigningInv, TypeOK, store
<1>1. CASE Listening(w)
  <2>0. /\ worker[w] = "spawned"
        /\ worker' = [worker EXCEPT ![w] = "signing"]
        /\ effect' = [effect EXCEPT ![w] = "running"]
        /\ UNCHANGED <<store, scope, caller, result, guard, slots, reply, spoilt>>
    BY <1>1 DEF WorkerStart, Listening, WorkerGoes
  <2>1. TypeOK'
    BY <1>1, <2>0 DEF Listening, Kinds
  <2>2. \A v \in Signings \ {w} : Same(v)
    BY <1>1, <2>0 DEF Listening, Same
  <2>3. SlotsBounded'
    <3>1. slots' \subseteq slots
      BY <1>1, <2>0 DEF Listening
    <3>. QED BY <3>1, SlotsShrink
  <2>4. reply' = reply /\ (caller[w] \in Finished => caller'[w] = caller[w])
    BY <1>1, <2>0 DEF Listening, Finished
  <2>5. SigningOK(w)'
    <3>. USE DEF SigningOK, ScopeOK, EffectOK, AnswerOK, Listening
    <3>1. ScopeOK(w)'
      BY <1>1, <2>0 DEF ScopeOK, Finished
    <3>2. EffectOK(w)'
      BY <1>1, <2>0 DEF EffectOK, Finished
    <3>3. AnswerOK(w)'
      BY <1>1, <2>0 DEF AnswerOK, Finished
    <3>4. SlotOwned(w)'
      BY <1>1, <2>0 DEF SlotOwned, Finished
    <3>5. EvidenceOwed(w)'
      BY <1>1, <2>0 DEF EvidenceOwed, Finished
    <3>. QED BY <3>1, <3>2, <3>3, <3>4, <3>5
  <2>. QED BY <2>1, <2>2, <2>3, <2>4, <2>5, OneSigning
<1>2. CASE ~ Listening(w)
  <2>0. /\ worker[w] = "spawned"
        /\ worker' = [worker EXCEPT ![w] = "unstarted"]
        /\ effect' = effect
        /\ UNCHANGED <<store, scope, caller, result, guard, slots, reply, spoilt>>
    BY <1>2 DEF WorkerStart, Listening, WorkerGoes
  <2>1. TypeOK'
    BY <1>2, <2>0 DEF Listening, Kinds
  <2>2. \A v \in Signings \ {w} : Same(v)
    BY <1>2, <2>0 DEF Listening, Same
  <2>3. SlotsBounded'
    <3>1. slots' \subseteq slots
      BY <1>2, <2>0 DEF Listening
    <3>. QED BY <3>1, SlotsShrink
  <2>4. reply' = reply /\ (caller[w] \in Finished => caller'[w] = caller[w])
    BY <1>2, <2>0 DEF Listening, Finished
  <2>5. SigningOK(w)'
    <3>. USE DEF SigningOK, ScopeOK, EffectOK, AnswerOK, Listening
    <3>1. ScopeOK(w)'
      BY <1>2, <2>0 DEF ScopeOK, Finished
    <3>2. EffectOK(w)'
      BY <1>2, <2>0 DEF EffectOK, Finished
    <3>3. AnswerOK(w)'
      BY <1>2, <2>0 DEF AnswerOK, Finished
    <3>4. SlotOwned(w)'
      BY <1>2, <2>0 DEF SlotOwned, Finished
    <3>5. EvidenceOwed(w)'
      BY <1>2, <2>0 DEF EvidenceOwed, Finished
    <3>. QED BY <3>1, <3>2, <3>3, <3>4, <3>5
  <2>. QED BY <2>1, <2>2, <2>3, <2>4, <2>5, OneSigning
<1>. QED BY <1>1, <1>2 DEF WorkerStart, Listening, WorkerGoes

\* The caller goes while the effect runs.
LEMMA CallerLostStep ==
  ASSUME SigningInv, NEW w \in Signings, CallerLost(w)
  PROVE  SigningInv'
<1>. USE SigningsAssumption DEF SigningInv, TypeOK, store
<1>1. TypeOK'
  BY DEF CallerLost, Listening, WorkerGoes, Kinds
<1>2. \A v \in Signings \ {w} : Same(v)
  BY DEF CallerLost, Listening, WorkerGoes, Same
<1>3. SlotsBounded'
  <2>1. slots' \subseteq slots
    BY DEF CallerLost, Listening, WorkerGoes
  <2>. QED BY <2>1, SlotsShrink
<1>4. reply' = reply /\ (caller[w] \in Finished => caller'[w] = caller[w])
  BY DEF CallerLost, Listening, WorkerGoes, Finished
<1>5. SigningOK(w)'
  <2>. USE DEF SigningOK, ScopeOK, EffectOK, AnswerOK, CallerLost, Listening, WorkerGoes
  <2>1. ScopeOK(w)'
    BY DEF ScopeOK, Finished
  <2>2. EffectOK(w)'
    BY DEF EffectOK, Finished
  <2>3. AnswerOK(w)'
    BY DEF AnswerOK, Finished
  <2>4. SlotOwned(w)'
    BY DEF SlotOwned, Finished
  <2>5. EvidenceOwed(w)'
    BY DEF EvidenceOwed, Finished
  <2>. QED BY <2>1, <2>2, <2>3, <2>4, <2>5
<1>. QED BY <1>1, <1>2, <1>3, <1>4, <1>5, OneSigning

\* The signing call ends.
LEMMA EffectReturnsStep ==
  ASSUME SigningInv, NEW w \in Signings, NEW outcome \in {"signed", "failed"},
         EffectReturns(w, outcome)
  PROVE  SigningInv'
<1>. USE SigningsAssumption DEF SigningInv, TypeOK, store
<1>1. CASE worker[w] = "signing"
  <2>0. /\ worker' = [worker EXCEPT ![w] = "returned"]
        /\ slots' = slots
        /\ effect' = [effect EXCEPT ![w] = outcome]
        /\ UNCHANGED <<store, scope, caller, result, guard, reply, spoilt>>
    BY <1>1 DEF EffectReturns, WorkerGoes, WorkerEnds
  <2>1. TypeOK'
    BY <1>1, <2>0 DEF Kinds
  <2>2. \A v \in Signings \ {w} : Same(v)
    BY <1>1, <2>0 DEF Same
  <2>3. SlotsBounded'
    <3>1. slots' \subseteq slots
      BY <1>1, <2>0
    <3>. QED BY <3>1, SlotsShrink
  <2>4. reply' = reply /\ (caller[w] \in Finished => caller'[w] = caller[w])
    BY <1>1, <2>0 DEF Finished
  <2>5. SigningOK(w)'
    <3>. USE DEF SigningOK, ScopeOK, EffectOK, AnswerOK
    <3>1. ScopeOK(w)'
      BY <1>1, <2>0 DEF ScopeOK, Finished
    <3>2. EffectOK(w)'
      BY <1>1, <2>0 DEF EffectOK, Finished
    <3>3. AnswerOK(w)'
      BY <1>1, <2>0 DEF AnswerOK, Finished
    <3>4. SlotOwned(w)'
      BY <1>1, <2>0 DEF SlotOwned, Finished
    <3>5. EvidenceOwed(w)'
      BY <1>1, <2>0 DEF EvidenceOwed, Finished
    <3>. QED BY <3>1, <3>2, <3>3, <3>4, <3>5
  <2>. QED BY <2>1, <2>2, <2>3, <2>4, <2>5, OneSigning
<1>2. CASE worker[w] = "alone" /\ outcome = "signed"
  <2>0. /\ worker' = [worker EXCEPT ![w] = "late"]
        /\ slots' = slots
        /\ effect' = [effect EXCEPT ![w] = outcome]
        /\ UNCHANGED <<store, scope, caller, result, guard, reply, spoilt>>
    BY <1>2 DEF EffectReturns, WorkerGoes, WorkerEnds
  <2>1. TypeOK'
    BY <1>2, <2>0 DEF Kinds
  <2>2. \A v \in Signings \ {w} : Same(v)
    BY <1>2, <2>0 DEF Same
  <2>3. SlotsBounded'
    <3>1. slots' \subseteq slots
      BY <1>2, <2>0
    <3>. QED BY <3>1, SlotsShrink
  <2>4. reply' = reply /\ (caller[w] \in Finished => caller'[w] = caller[w])
    BY <1>2, <2>0 DEF Finished
  <2>5. SigningOK(w)'
    <3>. USE DEF SigningOK, ScopeOK, EffectOK, AnswerOK
    <3>1. ScopeOK(w)'
      BY <1>2, <2>0 DEF ScopeOK, Finished
    <3>2. EffectOK(w)'
      BY <1>2, <2>0 DEF EffectOK, Finished
    <3>3. AnswerOK(w)'
      BY <1>2, <2>0 DEF AnswerOK, Finished
    <3>4. SlotOwned(w)'
      BY <1>2, <2>0 DEF SlotOwned, Finished
    <3>5. EvidenceOwed(w)'
      BY <1>2, <2>0 DEF EvidenceOwed, Finished
    <3>. QED BY <3>1, <3>2, <3>3, <3>4, <3>5
  <2>. QED BY <2>1, <2>2, <2>3, <2>4, <2>5, OneSigning
<1>3. CASE worker[w] = "alone" /\ outcome = "failed"
  <2>0. /\ worker' = [worker EXCEPT ![w] = "none"]
        /\ slots' = slots \ {<<w, "effect">>}
        /\ effect' = [effect EXCEPT ![w] = outcome]
        /\ UNCHANGED <<store, scope, caller, result, guard, reply, spoilt>>
    BY <1>3 DEF EffectReturns, WorkerGoes, WorkerEnds
  <2>1. TypeOK'
    BY <1>3, <2>0 DEF Kinds
  <2>2. \A v \in Signings \ {w} : Same(v)
    BY <1>3, <2>0 DEF Same
  <2>3. SlotsBounded'
    <3>1. slots' \subseteq slots
      BY <1>3, <2>0
    <3>. QED BY <3>1, SlotsShrink
  <2>4. reply' = reply /\ (caller[w] \in Finished => caller'[w] = caller[w])
    BY <1>3, <2>0 DEF Finished
  <2>5. SigningOK(w)'
    <3>. USE DEF SigningOK, ScopeOK, EffectOK, AnswerOK
    <3>1. ScopeOK(w)'
      BY <1>3, <2>0 DEF ScopeOK, Finished
    <3>2. EffectOK(w)'
      BY <1>3, <2>0 DEF EffectOK, Finished
    <3>3. AnswerOK(w)'
      BY <1>3, <2>0 DEF AnswerOK, Finished
    <3>4. SlotOwned(w)'
      <4>1. <<w, "effect">> # <<w, "guard">>
        OBVIOUS
      <4>2. /\ <<w, "effect">> \notin slots'
            /\ <<w, "guard">> \in slots' => <<w, "guard">> \in slots
        BY <1>3, <2>0, <4>1
      <4>3. worker'[w] = "none" /\ caller'[w] # "begin" /\ guard'[w] = guard[w]
        BY <1>3, <2>0
      <4>. QED BY <4>2, <4>3 DEF SlotOwned
    <3>5. EvidenceOwed(w)'
      BY <1>3, <2>0 DEF EvidenceOwed, Finished
    <3>. QED BY <3>1, <3>2, <3>3, <3>4, <3>5
  <2>. QED BY <2>1, <2>2, <2>3, <2>4, <2>5, OneSigning
<1>. QED BY <1>1, <1>2, <1>3 DEF EffectReturns, WorkerGoes, WorkerEnds

\* The evidence of the worker's write.
Recorded(w) ==
  IF worker[w] = "late" \/ (worker[w] = "returned" /\ effect[w] = "signed")
  THEN "external" ELSE "unknown"

\* The worker writes what it saw.
LEMMA WorkerRecordsStep ==
  ASSUME SigningInv, NEW w \in Signings, NEW answered \in BOOLEAN, WorkerRecords(w, answered)
  PROVE  SigningInv'
<1>. USE SigningsAssumption DEF SigningInv, TypeOK, store
<1>0. Written(w, Recorded(w), answered) /\ Marked(w, answered)
  <2>1. Record(w, Recorded(w), answered)
    <3>1. CASE worker[w] = "unstarted"
      <4>1. Recorded(w) = "unknown"
        BY <3>1 DEF Recorded, Observed
      <4>. QED BY <3>1, <4>1 DEF WorkerRecords
    <3>2. CASE worker[w] = "lost"
      <4>1. Recorded(w) = "unknown"
        BY <3>2 DEF Recorded, Observed
      <4>. QED BY <3>2, <4>1 DEF WorkerRecords
    <3>3. CASE worker[w] = "late"
      <4>1. Recorded(w) = "external"
        BY <3>3 DEF Recorded, Observed
      <4>. QED BY <3>3, <4>1 DEF WorkerRecords
    <3>4. CASE worker[w] = "returned"
      <4>1. Recorded(w) = Observed(w)
        BY <3>4 DEF Recorded, Observed
      <4>. QED BY <3>4, <4>1 DEF WorkerRecords
    <3>5. CASE worker[w] = "unsent"
      <4>1. Recorded(w) = "unknown"
        BY <3>5 DEF Recorded, Observed
      <4>. QED BY <3>5, <4>1 DEF WorkerRecords
    <3>. QED BY <3>1, <3>2, <3>3, <3>4, <3>5 DEF WorkerRecords
  <2>. QED BY <2>1, RecordWrites DEF Kinds, Recorded
<1>1. CASE worker[w] = "unstarted"
  <2>0. /\ worker' = [worker EXCEPT ![w] = "none"]
        /\ slots' = slots \ {<<w, "effect">>}
        /\ UNCHANGED <<caller, result, effect, guard, reply>>
    BY <1>0, <1>1 DEF WorkerRecords, WorkerGoes, WorkerEnds, Written, Marked, Recorded
  <2>1. TypeOK'
    BY <1>0, <1>1, <2>0 DEF Written, Marked, Recorded, Kinds
  <2>2. \A v \in Signings \ {w} : Same(v)
    BY <1>0, <1>1, <2>0 DEF Written, Marked, Recorded, Same
  <2>3. SlotsBounded'
    <3>1. slots' \subseteq slots
      BY <1>0, <1>1, <2>0 DEF Written, Marked, Recorded
    <3>. QED BY <3>1, SlotsShrink
  <2>4. reply' = reply /\ (caller[w] \in Finished => caller'[w] = caller[w])
    BY <1>0, <1>1, <2>0 DEF Written, Marked, Recorded, Finished
  <2>5. SigningOK(w)'
    <3>. USE DEF SigningOK, ScopeOK, EffectOK, AnswerOK, Written, Marked, Recorded
    <3>1. ScopeOK(w)'
      BY <1>0, <1>1, <2>0 DEF ScopeOK, Finished
    <3>2. EffectOK(w)'
      BY <1>0, <1>1, <2>0 DEF EffectOK, Finished
    <3>3. AnswerOK(w)'
      BY <1>0, <1>1, <2>0 DEF AnswerOK, Finished
    <3>4. SlotOwned(w)'
      <4>1. <<w, "effect">> # <<w, "guard">>
        OBVIOUS
      <4>2. /\ <<w, "effect">> \notin slots'
            /\ <<w, "guard">> \in slots' => <<w, "guard">> \in slots
        BY <1>0, <1>1, <2>0, <4>1 DEF Written, Marked, Recorded
      <4>3. worker'[w] = "none" /\ caller'[w] # "begin" /\ guard'[w] = guard[w]
        BY <1>0, <1>1, <2>0 DEF Written, Marked, Recorded
      <4>. QED BY <4>2, <4>3 DEF SlotOwned
    <3>5. EvidenceOwed(w)'
      BY <1>0, <1>1, <2>0 DEF EvidenceOwed, Finished
    <3>. QED BY <3>1, <3>2, <3>3, <3>4, <3>5
  <2>. QED BY <2>1, <2>2, <2>3, <2>4, <2>5, OneSigning
<1>2. CASE worker[w] = "lost"
  <2>0. /\ worker' = [worker EXCEPT ![w] = "alone"]
        /\ slots' = slots
        /\ UNCHANGED <<caller, result, effect, guard, reply>>
    BY <1>0, <1>2 DEF WorkerRecords, WorkerGoes, WorkerEnds, Written, Marked, Recorded
  <2>1. TypeOK'
    BY <1>0, <1>2, <2>0 DEF Written, Marked, Recorded, Kinds
  <2>2. \A v \in Signings \ {w} : Same(v)
    BY <1>0, <1>2, <2>0 DEF Written, Marked, Recorded, Same
  <2>3. SlotsBounded'
    <3>1. slots' \subseteq slots
      BY <1>0, <1>2, <2>0 DEF Written, Marked, Recorded
    <3>. QED BY <3>1, SlotsShrink
  <2>4. reply' = reply /\ (caller[w] \in Finished => caller'[w] = caller[w])
    BY <1>0, <1>2, <2>0 DEF Written, Marked, Recorded, Finished
  <2>5. SigningOK(w)'
    <3>. USE DEF SigningOK, ScopeOK, EffectOK, AnswerOK, Written, Marked, Recorded
    <3>1. ScopeOK(w)'
      BY <1>0, <1>2, <2>0 DEF ScopeOK, Finished
    <3>2. EffectOK(w)'
      BY <1>0, <1>2, <2>0 DEF EffectOK, Finished
    <3>3. AnswerOK(w)'
      BY <1>0, <1>2, <2>0 DEF AnswerOK, Finished
    <3>4. SlotOwned(w)'
      BY <1>0, <1>2, <2>0 DEF SlotOwned, Finished
    <3>5. EvidenceOwed(w)'
      BY <1>0, <1>2, <2>0 DEF EvidenceOwed, Finished
    <3>. QED BY <3>1, <3>2, <3>3, <3>4, <3>5
  <2>. QED BY <2>1, <2>2, <2>3, <2>4, <2>5, OneSigning
<1>3. CASE worker[w] = "late"
  <2>0. /\ worker' = [worker EXCEPT ![w] = "none"]
        /\ slots' = slots \ {<<w, "effect">>}
        /\ UNCHANGED <<caller, result, effect, guard, reply>>
    BY <1>0, <1>3 DEF WorkerRecords, WorkerGoes, WorkerEnds, Written, Marked, Recorded
  <2>1. TypeOK'
    BY <1>0, <1>3, <2>0 DEF Written, Marked, Recorded, Kinds
  <2>2. \A v \in Signings \ {w} : Same(v)
    BY <1>0, <1>3, <2>0 DEF Written, Marked, Recorded, Same
  <2>3. SlotsBounded'
    <3>1. slots' \subseteq slots
      BY <1>0, <1>3, <2>0 DEF Written, Marked, Recorded
    <3>. QED BY <3>1, SlotsShrink
  <2>4. reply' = reply /\ (caller[w] \in Finished => caller'[w] = caller[w])
    BY <1>0, <1>3, <2>0 DEF Written, Marked, Recorded, Finished
  <2>5. SigningOK(w)'
    <3>. USE DEF SigningOK, ScopeOK, EffectOK, AnswerOK, Written, Marked, Recorded
    <3>1. ScopeOK(w)'
      BY <1>0, <1>3, <2>0 DEF ScopeOK, Finished
    <3>2. EffectOK(w)'
      BY <1>0, <1>3, <2>0 DEF EffectOK, Finished
    <3>3. AnswerOK(w)'
      BY <1>0, <1>3, <2>0 DEF AnswerOK, Finished
    <3>4. SlotOwned(w)'
      <4>1. <<w, "effect">> # <<w, "guard">>
        OBVIOUS
      <4>2. /\ <<w, "effect">> \notin slots'
            /\ <<w, "guard">> \in slots' => <<w, "guard">> \in slots
        BY <1>0, <1>3, <2>0, <4>1 DEF Written, Marked, Recorded
      <4>3. worker'[w] = "none" /\ caller'[w] # "begin" /\ guard'[w] = guard[w]
        BY <1>0, <1>3, <2>0 DEF Written, Marked, Recorded
      <4>. QED BY <4>2, <4>3 DEF SlotOwned
    <3>5. EvidenceOwed(w)'
      BY <1>0, <1>3, <2>0 DEF EvidenceOwed, Finished
    <3>. QED BY <3>1, <3>2, <3>3, <3>4, <3>5
  <2>. QED BY <2>1, <2>2, <2>3, <2>4, <2>5, OneSigning
<1>4. CASE worker[w] = "returned"
  <2>0. /\ worker' = [worker EXCEPT ![w] = IF effect[w] = "signed" /\ answered THEN "sendOk" ELSE "sendErr"]
        /\ slots' = slots
        /\ UNCHANGED <<caller, result, effect, guard, reply>>
    BY <1>0, <1>4 DEF WorkerRecords, WorkerGoes, WorkerEnds, Written, Marked, Recorded
  <2>1. TypeOK'
    BY <1>0, <1>4, <2>0 DEF Written, Marked, Recorded, Kinds
  <2>2. \A v \in Signings \ {w} : Same(v)
    BY <1>0, <1>4, <2>0 DEF Written, Marked, Recorded, Same
  <2>3. SlotsBounded'
    <3>1. slots' \subseteq slots
      BY <1>0, <1>4, <2>0 DEF Written, Marked, Recorded
    <3>. QED BY <3>1, SlotsShrink
  <2>4. reply' = reply /\ (caller[w] \in Finished => caller'[w] = caller[w])
    BY <1>0, <1>4, <2>0 DEF Written, Marked, Recorded, Finished
  <2>5. SigningOK(w)'
    <3>. USE DEF SigningOK, ScopeOK, EffectOK, AnswerOK, Written, Marked, Recorded
    <3>1. ScopeOK(w)'
      BY <1>0, <1>4, <2>0 DEF ScopeOK, Finished
    <3>2. EffectOK(w)'
      BY <1>0, <1>4, <2>0 DEF EffectOK, Finished
    <3>3. AnswerOK(w)'
      BY <1>0, <1>4, <2>0 DEF AnswerOK, Finished
    <3>4. SlotOwned(w)'
      BY <1>0, <1>4, <2>0 DEF SlotOwned, Finished
    <3>5. EvidenceOwed(w)'
      BY <1>0, <1>4, <2>0 DEF EvidenceOwed, Finished
    <3>. QED BY <3>1, <3>2, <3>3, <3>4, <3>5
  <2>. QED BY <2>1, <2>2, <2>3, <2>4, <2>5, OneSigning
<1>5. CASE worker[w] = "unsent"
  <2>0. /\ worker' = [worker EXCEPT ![w] = "none"]
        /\ slots' = slots \ {<<w, "effect">>}
        /\ UNCHANGED <<caller, result, effect, guard, reply>>
    BY <1>0, <1>5 DEF WorkerRecords, WorkerGoes, WorkerEnds, Written, Marked, Recorded
  <2>1. TypeOK'
    BY <1>0, <1>5, <2>0 DEF Written, Marked, Recorded, Kinds
  <2>2. \A v \in Signings \ {w} : Same(v)
    BY <1>0, <1>5, <2>0 DEF Written, Marked, Recorded, Same
  <2>3. SlotsBounded'
    <3>1. slots' \subseteq slots
      BY <1>0, <1>5, <2>0 DEF Written, Marked, Recorded
    <3>. QED BY <3>1, SlotsShrink
  <2>4. reply' = reply /\ (caller[w] \in Finished => caller'[w] = caller[w])
    BY <1>0, <1>5, <2>0 DEF Written, Marked, Recorded, Finished
  <2>5. SigningOK(w)'
    <3>. USE DEF SigningOK, ScopeOK, EffectOK, AnswerOK, Written, Marked, Recorded
    <3>1. ScopeOK(w)'
      BY <1>0, <1>5, <2>0 DEF ScopeOK, Finished
    <3>2. EffectOK(w)'
      BY <1>0, <1>5, <2>0 DEF EffectOK, Finished
    <3>3. AnswerOK(w)'
      BY <1>0, <1>5, <2>0 DEF AnswerOK, Finished
    <3>4. SlotOwned(w)'
      <4>1. <<w, "effect">> # <<w, "guard">>
        OBVIOUS
      <4>2. /\ <<w, "effect">> \notin slots'
            /\ <<w, "guard">> \in slots' => <<w, "guard">> \in slots
        BY <1>0, <1>5, <2>0, <4>1 DEF Written, Marked, Recorded
      <4>3. worker'[w] = "none" /\ caller'[w] # "begin" /\ guard'[w] = guard[w]
        BY <1>0, <1>5, <2>0 DEF Written, Marked, Recorded
      <4>. QED BY <4>2, <4>3 DEF SlotOwned
    <3>5. EvidenceOwed(w)'
      BY <1>0, <1>5, <2>0 DEF EvidenceOwed, Finished
    <3>. QED BY <3>1, <3>2, <3>3, <3>4, <3>5
  <2>. QED BY <2>1, <2>2, <2>3, <2>4, <2>5, OneSigning
<1>. QED BY <1>1, <1>2, <1>3, <1>4, <1>5 DEF WorkerRecords, WorkerGoes, WorkerEnds

\* The worker hands the result over, or finds nobody.
LEMMA SendStep == ASSUME SigningInv, NEW w \in Signings, Send(w) PROVE SigningInv'
<1>. USE SigningsAssumption DEF SigningInv, TypeOK, store
<1>1. CASE Listening(w)
  <2>0. /\ worker[w] \in {"sendOk", "sendErr"}
        /\ worker' = [worker EXCEPT ![w] = "none"]
        /\ caller' = [caller EXCEPT ![w] = "wrap"]
        /\ result' = [result EXCEPT ![w] = IF worker[w] = "sendOk" THEN "ok" ELSE "err"]
        /\ slots' = slots \ {<<w, "effect">>}
        /\ UNCHANGED <<store, scope, effect, guard, reply, spoilt>>
    BY <1>1 DEF Send, Listening, WorkerGoes, WorkerEnds
  <2>1. TypeOK'
    BY <1>1, <2>0 DEF Listening, Kinds
  <2>2. \A v \in Signings \ {w} : Same(v)
    BY <1>1, <2>0 DEF Listening, Same
  <2>3. SlotsBounded'
    <3>1. slots' \subseteq slots
      BY <1>1, <2>0 DEF Listening
    <3>. QED BY <3>1, SlotsShrink
  <2>4. reply' = reply /\ (caller[w] \in Finished => caller'[w] = caller[w])
    BY <1>1, <2>0 DEF Listening, Finished
  <2>5. SigningOK(w)'
    <3>. USE DEF SigningOK, ScopeOK, EffectOK, AnswerOK, Listening
    <3>1. ScopeOK(w)'
      BY <1>1, <2>0 DEF ScopeOK, Finished
    <3>2. EffectOK(w)'
      BY <1>1, <2>0 DEF EffectOK, Finished
    <3>3. AnswerOK(w)'
      BY <1>1, <2>0 DEF AnswerOK, Finished
    <3>4. SlotOwned(w)'
      <4>1. <<w, "effect">> # <<w, "guard">>
        OBVIOUS
      <4>2. /\ <<w, "effect">> \notin slots'
            /\ <<w, "guard">> \in slots' => <<w, "guard">> \in slots
        BY <1>1, <2>0, <4>1 DEF Listening
      <4>3. worker'[w] = "none" /\ caller'[w] # "begin" /\ guard'[w] = guard[w]
        BY <1>1, <2>0 DEF Listening
      <4>. QED BY <4>2, <4>3 DEF SlotOwned
    <3>5. EvidenceOwed(w)'
      BY <1>1, <2>0 DEF EvidenceOwed, Finished
    <3>. QED BY <3>1, <3>2, <3>3, <3>4, <3>5
  <2>. QED BY <2>1, <2>2, <2>3, <2>4, <2>5, OneSigning
<1>2. CASE ~ Listening(w)
  <2>0. /\ worker[w] \in {"sendOk", "sendErr"}
        /\ worker' = [worker EXCEPT ![w] = "unsent"]
        /\ caller' = caller
        /\ result' = result
        /\ slots' = slots
        /\ UNCHANGED <<store, scope, effect, guard, reply, spoilt>>
    BY <1>2 DEF Send, Listening, WorkerGoes, WorkerEnds
  <2>1. TypeOK'
    BY <1>2, <2>0 DEF Listening, Kinds
  <2>2. \A v \in Signings \ {w} : Same(v)
    BY <1>2, <2>0 DEF Listening, Same
  <2>3. SlotsBounded'
    <3>1. slots' \subseteq slots
      BY <1>2, <2>0 DEF Listening
    <3>. QED BY <3>1, SlotsShrink
  <2>4. reply' = reply /\ (caller[w] \in Finished => caller'[w] = caller[w])
    BY <1>2, <2>0 DEF Listening, Finished
  <2>5. SigningOK(w)'
    <3>. USE DEF SigningOK, ScopeOK, EffectOK, AnswerOK, Listening
    <3>1. ScopeOK(w)'
      BY <1>2, <2>0 DEF ScopeOK, Finished
    <3>2. EffectOK(w)'
      BY <1>2, <2>0 DEF EffectOK, Finished
    <3>3. AnswerOK(w)'
      BY <1>2, <2>0 DEF AnswerOK, Finished
    <3>4. SlotOwned(w)'
      BY <1>2, <2>0 DEF SlotOwned, Finished
    <3>5. EvidenceOwed(w)'
      BY <1>2, <2>0 DEF EvidenceOwed, Finished
    <3>. QED BY <3>1, <3>2, <3>3, <3>4, <3>5
  <2>. QED BY <2>1, <2>2, <2>3, <2>4, <2>5, OneSigning
<1>. QED BY <1>1, <1>2 DEF Send, Listening, WorkerGoes, WorkerEnds

\* AuditWorkers::reserve takes a permit only while there is one.
LEMMA StartStep == ASSUME SigningInv, NEW w \in Signings, Start(w) PROVE SigningInv'
<1>. USE SigningsAssumption DEF SigningInv, TypeOK, store
<1>0. /\ caller[w] = "idle"
      /\ UNCHANGED <<attempts, count, intents, evidence, input, scope, worker,
                     effect, guard, reply, spoilt>>
  BY DEF Start
<1>a. reply' = reply /\ (caller[w] \in Finished => caller'[w] = caller[w])
  BY <1>0 DEF Finished
<1>b. /\ tx[w] = "none" /\ w \notin attempts /\ scope[w] = "none"
      /\ result[w] = "none" /\ worker[w] = "none" /\ effect[w] = "none"
      /\ guard[w] = "none" /\ evidence[w] = {}
  BY <1>0 DEF SigningOK, ScopeOK
<1>1. CASE /\ Kind[w] = "kms" /\ SlotFree /\ slots' = slots \cup {<<w, "effect">>}
           /\ caller' = [caller EXCEPT ![w] = "begin"]
           /\ tx' = [tx EXCEPT ![w] = "sent"] /\ result' = result
  <2>1. TypeOK'
    BY <1>0, <1>1
  <2>2. \A v \in Signings \ {w} : Same(v)
    BY <1>0, <1>1 DEF Same
  <2>3. SlotsBounded'
    <3>1. IsFiniteSet(slots) /\ Cardinality(slots) \in Nat /\ Cardinality(slots) < Capacity
      BY <1>1, FS_CardinalityType DEF SlotsBounded, SlotFree
    <3>2. /\ IsFiniteSet(slots')
          /\ Cardinality(slots') = IF <<w, "effect">> \in slots THEN Cardinality(slots)
                                   ELSE Cardinality(slots) + 1
      BY <1>1, <3>1, FS_AddElement
    <3>. QED BY <3>1, <3>2 DEF SlotsBounded
  <2>4. SigningOK(w)'
    <3>1. <<w, "effect">> \in slots' /\ <<w, "guard">> \notin slots'
      BY <1>1, <1>b DEF SigningOK, SlotOwned
    <3>. QED BY <1>0, <1>1, <1>b, <3>1
         DEF SigningOK, ScopeOK, EffectOK, AnswerOK, SlotOwned, EvidenceOwed, Finished
  <2>. QED BY <1>a, <2>1, <2>2, <2>3, <2>4, OneSigning
<1>2. CASE /\ Kind[w] = "local" /\ slots' = slots
           /\ caller' = [caller EXCEPT ![w] = "begin"]
           /\ tx' = [tx EXCEPT ![w] = "sent"] /\ result' = result
  <2>1. TypeOK'
    BY <1>0, <1>2
  <2>2. \A v \in Signings \ {w} : Same(v)
    BY <1>0, <1>2 DEF Same
  <2>3. SlotsBounded'
    BY <1>2, SlotsShrink
  <2>4. SigningOK(w)'
    BY <1>0, <1>2, <1>b
       DEF SigningOK, ScopeOK, EffectOK, AnswerOK, SlotOwned, EvidenceOwed, Finished
  <2>. QED BY <1>a, <2>1, <2>2, <2>3, <2>4, OneSigning
<1>3. CASE /\ slots' = slots /\ caller' = [caller EXCEPT ![w] = "wrap"]
           /\ result' = [result EXCEPT ![w] = "err"] /\ tx' = tx
  <2>1. TypeOK'
    BY <1>0, <1>3
  <2>2. \A v \in Signings \ {w} : Same(v)
    BY <1>0, <1>3 DEF Same
  <2>3. SlotsBounded'
    BY <1>3, SlotsShrink
  <2>4. SigningOK(w)'
    BY <1>0, <1>3, <1>b
       DEF SigningOK, ScopeOK, EffectOK, AnswerOK, SlotOwned, EvidenceOwed, Finished
  <2>. QED BY <1>a, <2>1, <2>2, <2>3, <2>4, OneSigning
<1>. QED
  <2>1. Kind[w] = "kms" \/ Kind[w] = "local"
    OBVIOUS
  <2>. QED BY <2>1, <1>1, <1>2, <1>3 DEF Start

\* What dropping the futures of a finite set of signings does.
Dropped(S, marks) ==
  /\ guard' \in [Signings -> {"none", "pending"}]
  /\ slots' \in SUBSET (Signings \X {"effect", "guard"})
  /\ \A v \in Signings :
       /\ guard'[v] = IF v \in S /\ marks[v] = "open" THEN "pending" ELSE guard[v]
       /\ <<v, "effect">> \in slots' <=> <<v, "effect">> \in slots
                                         /\ ~ (v \in S /\ caller[v] = "begin")
       /\ <<v, "guard">> \in slots' => <<v, "guard">> \in slots
                                       \/ (v \in S /\ marks[v] = "open")
       /\ ~ (v \in S /\ marks[v] = "open") =>
            (<<v, "guard">> \in slots' <=> <<v, "guard">> \in slots)
  /\ SlotsBounded'

\* The reservations and the guards of dropped futures.
LEMMA DropGuardsDrops ==
  ASSUME TypeOK, SlotsBounded, NEW S \in SUBSET Signings, IsFiniteSet(S),
         NEW marks, DropGuards(S, marks)
  PROVE  Dropped(S, marks)
<1>. DEFINE open == {w \in S : marks[w] = "open"}
            kept == slots \ {<<w, "effect">> : w \in {v \in S : caller[v] = "begin"}}
            tickets == {<<w, "guard">> : w \in open}
<1>1. PICK taken \in SUBSET tickets :
        Cardinality(kept \cup taken) <= Capacity /\ slots' = kept \cup taken
  BY DEF DropGuards
<1>2. guard' = [w \in Signings |-> IF w \in open THEN "pending" ELSE guard[w]]
  BY DEF DropGuards
<1>3. guard' \in [Signings -> {"none", "pending"}]
  BY <1>2 DEF TypeOK
<1>4. slots' \in SUBSET (Signings \X {"effect", "guard"})
  BY <1>1 DEF TypeOK
<1>5. ASSUME NEW v \in Signings
      PROVE  /\ guard'[v] = IF v \in S /\ marks[v] = "open" THEN "pending" ELSE guard[v]
             /\ <<v, "effect">> \in slots' <=> <<v, "effect">> \in slots
                                               /\ ~ (v \in S /\ caller[v] = "begin")
             /\ <<v, "guard">> \in slots' => <<v, "guard">> \in slots
                                             \/ (v \in S /\ marks[v] = "open")
             /\ ~ (v \in S /\ marks[v] = "open") =>
                  (<<v, "guard">> \in slots' <=> <<v, "guard">> \in slots)
  <2>1. guard'[v] = IF v \in S /\ marks[v] = "open" THEN "pending" ELSE guard[v]
    BY <1>2
  <2>2. <<v, "effect">> \notin taken /\ (<<v, "guard">> \in taken => v \in open)
    BY <1>1
  <2>3. <<v, "effect">> \in kept <=> <<v, "effect">> \in slots
                                     /\ ~ (v \in S /\ caller[v] = "begin")
    OBVIOUS
  <2>4. <<v, "guard">> \in kept <=> <<v, "guard">> \in slots
    OBVIOUS
  <2>. QED BY <1>1, <2>1, <2>2, <2>3, <2>4
<1>6. SlotsBounded'
  <2>1. IsFiniteSet(open)
    BY FS_Subset
  <2>2. [w \in open |-> <<w, "guard">>] \in Surjection(open, tickets)
    BY DEF Surjection
  <2>3. IsFiniteSet(tickets)
    BY <2>1, <2>2, FS_Surjection
  <2>4. IsFiniteSet(taken) /\ IsFiniteSet(kept)
    BY <1>1, <2>3, FS_Subset DEF SlotsBounded
  <2>. QED BY <1>1, <2>4, FS_Union DEF SlotsBounded
<1>. QED BY <1>3, <1>4, <1>5, <1>6 DEF Dropped

\* sign_wallet writes its own evidence and leaves its guard.
LEMMA WrapStep ==
  ASSUME SigningInv, NEW w \in Signings, NEW answered \in BOOLEAN, Wrap(w, answered)
  PROVE  SigningInv'
<1>. USE SigningsAssumption DEF SigningInv
<1>1. Dropped({w}, scope')
  BY FS_Singleton, DropGuardsDrops DEF Wrap
<1>2. caller[w] = "wrap" /\ result[w] # "none" /\ UNCHANGED <<result, worker, effect, reply>>
  BY DEF Wrap, SigningOK, AnswerOK
<1>3. SlotsBounded' /\ reply' = reply /\ (caller[w] \in Finished => caller'[w] = caller[w])
  BY <1>1, <1>2 DEF Dropped, Finished
<1>4. CASE /\ scope[w] = "none" /\ caller' = [caller EXCEPT ![w] = "err"]
           /\ UNCHANGED <<store, scope, spoilt>>
  <2>1. TypeOK'
    BY <1>1, <1>2, <1>4 DEF Dropped, TypeOK, store
  <2>2. \A v \in Signings \ {w} : Same(v)
    BY <1>1, <1>2, <1>4, ZenonT(30) DEF Dropped, TypeOK, store, Same
  <2>3. SigningOK(w)'
    <3>1. /\ guard'[w] = guard[w] /\ caller'[w] = "err"
          /\ <<w, "effect">> \in slots' <=> <<w, "effect">> \in slots
          /\ <<w, "guard">> \in slots' <=> <<w, "guard">> \in slots
      BY <1>1, <1>2, <1>4 DEF Dropped, TypeOK, store
    <3>. QED BY <1>2, <1>4, <3>1
         DEF store, SigningOK, ScopeOK, EffectOK, AnswerOK, SlotOwned, EvidenceOwed, Finished
  <2>. QED BY <1>3, <2>1, <2>2, <2>3, OneSigning
<1>5. CASE /\ scope[w] # "none"
           /\ Record(w, IF result[w] = "ok" THEN "wallet" ELSE "unknown", answered)
           /\ caller' = [caller EXCEPT ![w] = IF answered THEN result[w] ELSE "err"]
  <2>. DEFINE kind == IF result[w] = "ok" THEN "wallet" ELSE "unknown"
  <2>1. Written(w, kind, answered) /\ Marked(w, answered)
    BY <1>5, RecordWrites DEF Kinds
  <2>2. TypeOK'
    <3>1. caller' \in [Signings -> {"idle", "begin", "await", "external", "wrap",
                                    "ok", "err", "gone"}]
      <4>1. result[w] \in {"ok", "err"}
        BY <1>2 DEF TypeOK
      <4>. QED BY <1>5, <4>1 DEF TypeOK
    <3>. QED BY <1>1, <1>2, <2>1, <3>1 DEF Dropped, TypeOK, Written, Marked
  <2>3. \A v \in Signings \ {w} : Same(v)
    <3>. SUFFICES ASSUME NEW v \in Signings \ {w} PROVE Same(v)
      OBVIOUS
    <3>1. /\ guard'[v] = guard[v]
          /\ <<v, "effect">> \in slots' <=> <<v, "effect">> \in slots
          /\ <<v, "guard">> \in slots' <=> <<v, "guard">> \in slots
      BY <1>1 DEF Dropped
    <3>2. caller'[v] = caller[v]
      BY <1>5 DEF TypeOK
    <3>. QED BY <1>2, <2>1, <3>1, <3>2 DEF Written, Marked, Same
  <2>4. SigningOK(w)'
    <3>1. CASE answered
      <4>1. /\ guard'[w] = guard[w] /\ caller'[w] = result[w] /\ scope'[w] = "recorded"
            /\ <<w, "effect">> \in slots' <=> <<w, "effect">> \in slots
            /\ <<w, "guard">> \in slots' <=> <<w, "guard">> \in slots
            /\ kind \in evidence'[w] /\ evidence[w] \subseteq evidence'[w]
            /\ evidence'[w] \subseteq evidence[w] \cup {kind}
            /\ tx' = tx /\ attempts' = attempts /\ result[w] \in {"ok", "err"}
            /\ w \in spoilt' <=> w \in spoilt
        BY <1>1, <1>2, <1>5, <2>1, <3>1 DEF Dropped, TypeOK, Written, Marked
      <4>. QED BY <1>2, <1>5, <4>1
           DEF SigningOK, ScopeOK, EffectOK, AnswerOK, SlotOwned, EvidenceOwed, Finished
    <3>2. CASE ~ answered
      <4>1. /\ guard'[w] = IF scope[w] = "open" THEN "pending" ELSE guard[w]
            /\ caller'[w] = "err" /\ scope'[w] = scope[w]
            /\ <<w, "effect">> \in slots' <=> <<w, "effect">> \in slots
            /\ <<w, "guard">> \in slots' => <<w, "guard">> \in slots \/ scope[w] = "open"
            /\ evidence[w] \subseteq evidence'[w]
            /\ evidence'[w] \subseteq evidence[w] \cup {kind}
            /\ tx' = tx /\ attempts' = attempts
            /\ w \in spoilt'
        BY <1>1, <1>2, <1>5, <2>1, <3>2 DEF Dropped, TypeOK, Written, Marked
      <4>. QED BY <1>2, <1>5, <4>1
           DEF SigningOK, ScopeOK, EffectOK, AnswerOK, SlotOwned, EvidenceOwed, Finished
    <3>. QED BY <3>1, <3>2
  <2>. QED BY <1>3, <2>2, <2>3, <2>4, OneSigning
<1>. QED BY <1>4, <1>5 DEF Wrap

\* A request has finitely many wallets.
LEMMA MembersFinite ==
  ASSUME NEW q \in Requests PROVE Members(q) \in SUBSET Signings /\ IsFiniteSet(Members(q))
<1>1. Wallets[q] \in Seq(Signings) /\ Len(Wallets[q]) \in Nat /\ DOMAIN Wallets[q] = 1 .. Len(Wallets[q])
  BY SigningsAssumption
<1>2. Wallets[q] \in Surjection(1 .. Len(Wallets[q]), Members(q))
  BY <1>1 DEF Surjection, Members
<1>3. Members(q) \in SUBSET Signings
  BY <1>1 DEF Members
<1>4. IsFiniteSet(1 .. Len(Wallets[q]))
  BY <1>1, FS_Interval
<1>. QED BY <1>2, <1>3, <1>4, FS_Surjection

\* A request's futures dropped: the attempts they leave open get their tasks.
LEMMA AbandonKeeps ==
  ASSUME SigningInv, NEW q \in Requests, NEW a \in {"err", "gone"},
         reply' = [reply EXCEPT ![q] = a], Abandon(Members(q)),
         UNCHANGED <<store, scope, result, worker, effect, spoilt>>
  PROVE  SigningInv'
<1>. DEFINE U == Unfinished(Members(q))
<1>1. U \in SUBSET Signings /\ IsFiniteSet(U)
  BY MembersFinite, FS_Subset DEF Unfinished
<1>2. Dropped(U, scope)
  BY <1>1, DropGuardsDrops DEF Abandon, SigningInv
<1>3. caller' = [w \in Signings |-> IF w \in U THEN "gone" ELSE caller[w]]
  BY DEF Abandon
<1>4. TypeOK' /\ SlotsBounded'
  BY <1>2, <1>3 DEF Dropped, SigningInv, TypeOK, store
<1>5. \A v \in Signings : SigningOK(v)'
  <2>. SUFFICES ASSUME NEW v \in Signings PROVE SigningOK(v)'
    OBVIOUS
  <2>0. SigningOK(v)
    BY DEF SigningInv
  <2>1. CASE v \notin U
    <3>1. Same(v)
      BY <1>2, <1>3, <2>1 DEF Dropped, Same, store
    <3>. QED BY <2>0, <3>1, SameKeeps
  <2>2. CASE v \in U
    <3>1. caller[v] \notin Finished /\ caller'[v] = "gone"
      BY <1>3, <2>2 DEF Unfinished, Finished
    <3>2. /\ guard'[v] = IF scope[v] = "open" THEN "pending" ELSE guard[v]
          /\ <<v, "effect">> \in slots' <=> <<v, "effect">> \in slots /\ caller[v] # "begin"
          /\ <<v, "guard">> \in slots' => <<v, "guard">> \in slots \/ scope[v] = "open"
      BY <1>2, <2>2 DEF Dropped
    <3>. HIDE DEF U
    <3>3. ScopeOK(v)'
      BY <2>0, <3>1, <3>2 DEF store, SigningOK, ScopeOK
    <3>4. EffectOK(v)' /\ AnswerOK(v)'
      BY <2>0, <3>1 DEF store, SigningOK, EffectOK, AnswerOK
    <3>5. SlotOwned(v)'
      BY <2>0, <3>1, <3>2 DEF store, SigningOK, ScopeOK, SlotOwned
    <3>6. EvidenceOwed(v)'
      BY <2>0, <3>1, <3>2 DEF store, SigningOK, EvidenceOwed
    <3>. QED BY <3>3, <3>4, <3>5, <3>6 DEF SigningOK
  <2>. QED BY <2>1, <2>2
<1>6. EffectAfterCommit' /\ EvidenceIsTrue'
  BY <1>5 DEF SigningOK, ScopeOK, EffectOK, EffectAfterCommit, EvidenceIsTrue
<1>7. RepliesOK'
  <2>. SUFFICES ASSUME NEW p \in Requests, NEW v \in Members(p)
                PROVE  /\ reply'[p] # "pending" => caller'[v] \in Finished
                       /\ reply'[p] = "ok" => caller'[v] = "ok"
    BY DEF RepliesOK
  <2>1. v \in Signings
    BY MembersFinite
  <2>2. /\ reply[p] # "pending" => caller[v] \in Finished
        /\ reply[p] = "ok" => caller[v] = "ok"
    BY DEF SigningInv, RepliesOK
  <2>3. /\ caller[v] \in Finished => caller'[v] = caller[v]
        /\ p = q => caller'[v] \in Finished
    BY <1>3, <2>1 DEF Unfinished, Finished
  <2>4. reply'[p] = IF p = q THEN a ELSE reply[p]
    BY DEF SigningInv, TypeOK
  <2>. QED BY <2>2, <2>3, <2>4 DEF Finished
<1>. QED BY <1>4, <1>5, <1>6, <1>7 DEF SigningInv

\* The request is answered, with every signature or the first error.
LEMMA RespondStep == ASSUME SigningInv, NEW q \in Requests, Respond(q) PROVE SigningInv'
<1>1. CASE /\ \A w \in Members(q) : caller[w] = "ok"
           /\ reply' = [reply EXCEPT ![q] = "ok"]
           /\ UNCHANGED <<caller, guard, slots>>
  <2>0. UNCHANGED <<store, scope, result, worker, effect, spoilt>>
    BY DEF Respond
  <2>1. TypeOK'
    BY <1>1, <2>0 DEF SigningInv, TypeOK, store
  <2>2. \A v \in Signings : SigningOK(v)'
    <3>1. \A v \in Signings : Same(v)
      BY <1>1, <2>0 DEF store, Same
    <3>. QED BY <3>1, SameKeeps DEF SigningInv
  <2>3. EffectAfterCommit' /\ EvidenceIsTrue' /\ SlotsBounded'
    BY <1>1, <2>0 DEF SigningInv, store, EffectAfterCommit, EvidenceIsTrue, SlotsBounded
  <2>4. RepliesOK'
    <3>1. \A p \in Requests : reply'[p] = IF p = q THEN "ok" ELSE reply[p]
      BY <1>1 DEF SigningInv, TypeOK
    <3>. QED BY <1>1, <3>1 DEF SigningInv, RepliesOK, Finished
  <2>. QED BY <2>1, <2>2, <2>3, <2>4 DEF SigningInv
<1>2. CASE reply' = [reply EXCEPT ![q] = "err"] /\ Abandon(Members(q))
  BY <1>2, AbandonKeeps DEF Respond
<1>. QED BY <1>1, <1>2 DEF Respond

\* The request is cut off.
LEMMA DisconnectStep ==
  ASSUME SigningInv, NEW q \in Requests, Disconnect(q)
  PROVE  SigningInv'
BY AbandonKeeps DEF Disconnect

\* A signing belongs to one request.
LEMMA RequestOfMember ==
  /\ \A w \in Signings : RequestOf(w) \in Requests /\ w \in Members(RequestOf(w))
  /\ \A q \in Requests : \A w \in Members(q) : RequestOf(w) = q
<1>1. ASSUME NEW w \in Signings
      PROVE  RequestOf(w) \in Requests /\ w \in Members(RequestOf(w))
  <2>1. \E q \in Requests : w \in Members(q)
    BY SigningsAssumption
  <2>. QED BY <2>1 DEF RequestOf
<1>2. ASSUME NEW q \in Requests, NEW w \in Members(q) PROVE RequestOf(w) = q
  <2>1. w \in Signings
    BY MembersFinite
  <2>2. RequestOf(w) \in Requests /\ w \in Members(RequestOf(w)) \cap Members(q)
    BY <1>1, <2>1
  <2>. QED BY <2>2, SigningsAssumption
<1>. QED BY <1>1, <1>2

\* The process stops: what was running is marked spoilt.
LEMMA CrashStep == ASSUME SigningInv, Crash PROVE SigningInv'
<1>. DEFINE cut == {q \in Requests : reply[q] = "pending" /\ Members(q) \cap InFlight # {}}
<1>0. /\ reply' = [q \in Requests |-> IF q \in cut THEN "gone" ELSE reply[q]]
      /\ caller' = [w \in Signings |->
           IF RequestOf(w) \in cut /\ caller[w] \notin {"ok", "err"}
           THEN "gone" ELSE caller[w]]
      /\ worker' = Per("none") /\ guard' = Per("none") /\ slots' = {}
      /\ spoilt' = spoilt \cup InFlight
      /\ UNCHANGED <<store, scope, result, effect>>
  BY DEF Crash
<1>1. TypeOK'
  BY <1>0 DEF SigningInv, TypeOK, store, Per, InFlight
<1>2. SlotsBounded'
  BY <1>0, SlotsShrink, SigningsAssumption DEF SigningInv
<1>3. ASSUME NEW v \in Signings PROVE SigningOK(v)'
  <2>0. SigningOK(v)
    BY DEF SigningInv
  <2>1. /\ worker'[v] = "none" /\ guard'[v] = "none"
        /\ <<v, "effect">> \notin slots' /\ <<v, "guard">> \notin slots'
    BY <1>0 DEF Per
  <2>2. /\ caller'[v] \in {caller[v], "gone"}
        /\ caller[v] \in {"ok", "err", "gone"} => caller'[v] = caller[v]
    BY <1>0
  <2>3. caller'[v] # "begin"
    <3>1. SUFFICES ASSUME caller[v] = "begin" PROVE caller'[v] = "gone"
      BY <2>2
    <3>2. RequestOf(v) \in Requests /\ v \in Members(RequestOf(v))
      BY RequestOfMember
    <3>3. v \in InFlight
      BY <3>1 DEF InFlight
    <3>4. reply[RequestOf(v)] = "pending"
      BY <3>1, <3>2 DEF SigningInv, RepliesOK, Finished
    <3>5. RequestOf(v) \in cut
      BY <3>2, <3>3, <3>4
    <3>. QED BY <1>0, <3>1, <3>5
  <2>4. v \notin spoilt' =>
          /\ v \notin spoilt /\ worker[v] = "none" /\ guard[v] = "none"
          /\ caller[v] \in {"idle", "ok", "err", "gone"}
    BY <1>0 DEF InFlight
  <2>5. UNCHANGED <<store, scope, result, effect>>
    BY <1>0
  <2>. HIDE DEF cut
  <2>6. ScopeOK(v)'
    BY <2>0, <2>1, <2>2, <2>5 DEF store, SigningOK, ScopeOK
  <2>7. EffectOK(v)' /\ AnswerOK(v)'
    BY <2>0, <2>1, <2>2, <2>5 DEF store, SigningOK, EffectOK, AnswerOK
  <2>8. SlotOwned(v)'
    BY <2>1, <2>3 DEF SlotOwned
  <2>9. EvidenceOwed(v)'
    BY <2>0, <2>1, <2>2, <2>4, <2>5 DEF store, SigningOK, ScopeOK, EvidenceOwed, Finished
  <2>. QED BY <2>6, <2>7, <2>8, <2>9 DEF SigningOK
<1>4. EffectAfterCommit' /\ EvidenceIsTrue'
  BY <1>3 DEF SigningOK, ScopeOK, EffectOK, EffectAfterCommit, EvidenceIsTrue
<1>5. RepliesOK'
  <2>. SUFFICES ASSUME NEW q \in Requests, NEW v \in Members(q)
                PROVE  /\ reply'[q] # "pending" => caller'[v] \in Finished
                       /\ reply'[q] = "ok" => caller'[v] = "ok"
    BY DEF RepliesOK
  <2>1. v \in Signings /\ RequestOf(v) = q
    BY MembersFinite, RequestOfMember
  <2>2. /\ reply[q] # "pending" => caller[v] \in Finished
        /\ reply[q] = "ok" => caller[v] = "ok"
    BY DEF SigningInv, RepliesOK
  <2>. QED BY <1>0, <2>1, <2>2 DEF Finished
<1>. QED BY <1>1, <1>2, <1>3, <1>4, <1>5 DEF SigningInv

-----------------------------------------------------------------------------
\* Nothing has started.
LEMMA InitHolds == Init => SigningInv
<1>. SUFFICES ASSUME Init PROVE SigningInv
  OBVIOUS
<1>1. TypeOK
  BY DEF Init, TypeOK, Per
<1>2. SlotsBounded
  BY FS_EmptySet, SigningsAssumption DEF Init, SlotsBounded
<1>3. ASSUME NEW w \in Signings PROVE SigningOK(w)
  BY SigningsAssumption DEF Init, Per, SigningOK, ScopeOK, EffectOK, AnswerOK, SlotOwned,
        EvidenceOwed, Finished
<1>4. EffectAfterCommit /\ EvidenceIsTrue /\ RepliesOK
  BY DEF Init, Per, EffectAfterCommit, EvidenceIsTrue, RepliesOK
<1>. QED BY <1>1, <1>2, <1>3, <1>4 DEF SigningInv

\* Every step keeps the invariant.
LEMMA StepHolds == SigningInv /\ [Next]_vars => SigningInv'
<1>. SUFFICES ASSUME SigningInv, [Next]_vars PROVE SigningInv'
  OBVIOUS
<1>1. ASSUME NEW w \in Signings, CallerStep(w) PROVE SigningInv'
  BY <1>1, BegunStep, BeginFailsStep, AwaitExpiresStep, LocalReturnedStep, WrapStep
     DEF CallerStep
<1>2. ASSUME NEW w \in Signings, WorkerStep(w) PROVE SigningInv'
  BY <1>2, WorkerStartStep, CallerLostStep, SendStep, EffectReturnsStep, WorkerRecordsStep
     DEF WorkerStep
<1>3. ASSUME NEW w \in Signings, GuardStep(w) PROVE SigningInv'
  BY <1>3, GuardRecordsStep DEF GuardStep
<1>4. CASE UNCHANGED vars
  BY <1>4 DEF vars, store, SigningInv, TypeOK, EffectAfterCommit, EvidenceIsTrue,
       SlotsBounded, RepliesOK, SigningOK, ScopeOK, EffectOK, AnswerOK, SlotOwned, EvidenceOwed
<1>. QED
  BY <1>1, <1>2, <1>3, <1>4, DbBeginStep, StartStep, RespondStep, DisconnectStep, CrashStep
     DEF Next

\* Behind every step of signing under the audit: no effect before its commit,
\* no evidence that is untrue, no slot without its owner, and nothing owed that
\* nobody is left to write.
THEOREM SigningInvHolds == Spec => []SigningInv
BY InitHolds, StepHolds, PTL DEF Spec

\* A 200 stands on committed evidence (SECURITY.md, gate 3).
THEOREM SuccessStandsOnEvidence == Spec => []SuccessIsEvidenced
<1>1. SigningInv => SuccessIsEvidenced
  <2>. SUFFICES ASSUME SigningInv, NEW q \in Requests, reply[q] = "ok", NEW w \in Members(q)
                PROVE  w \in attempts /\ {"external", "wallet"} \subseteq evidence[w]
    BY DEF SuccessIsEvidenced
  <2>1. w \in Signings /\ caller[w] = "ok"
    BY MembersFinite DEF SigningInv, RepliesOK
  <2>2. {"external", "wallet"} \subseteq evidence[w]
    BY <2>1 DEF SigningInv, SigningOK, AnswerOK
  <2>. QED BY <2>1, <2>2 DEF SigningInv, EvidenceIsTrue
<1>. QED BY <1>1, SigningInvHolds, PTL

\* AttemptGuard::drop and the detached worker leave no attempt without its
\* evidence, unless the store or a crash got in the way.
THEOREM NoAttemptForgotten == Spec => []NothingForgotten
<1>1. SigningInv => NothingForgotten
  <2>. SUFFICES ASSUME SigningInv, NEW w \in Signings, Quiet(w), scope[w] # "none",
                       w \notin spoilt
                PROVE  /\ evidence[w] # {}
                       /\ Kind[w] = "kms" /\ effect[w] = "signed" => "external" \in evidence[w]
                       /\ effect[w] # "running"
    BY DEF NothingForgotten
  <2>1. SigningOK(w) /\ scope[w] \in {"open", "recorded"}
    BY DEF SigningInv, TypeOK
  <2>. QED BY <2>1 DEF SigningOK, ScopeOK, EvidenceOwed, Quiet
<1>. QED BY <1>1, SigningInvHolds, PTL
=============================================================================
