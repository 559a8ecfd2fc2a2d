------------------------ MODULE EnvTransactionProofs ------------------------
(***************************************************************************)
(* Proofs about EnvTransaction, for any environments, cells and bounds.    *)
(***************************************************************************)
EXTENDS EnvTransaction, SequenceTheorems, TLAPS

(* The frames of one environment carry 0, 1, 2, ... from the bottom up, the *)
(* first is the transaction, and depth counts them.                        *)
Kinds == \A i \in DOMAIN frames : frames[i].kind = "tx" <=> frames[i].sp = 0

First(i) == \A j \in 1 .. (i - 1) : frames[j].env /= frames[i].env
Below(j, i) ==
    /\ frames[j].env = frames[i].env
    /\ frames[j].sp = frames[i].sp - 1
    /\ \A k \in (j + 1) .. (i - 1) : frames[k].env /= frames[i].env
Stacked ==
    \A i \in DOMAIN frames :
        \/ First(i) /\ frames[i].sp = 0
        \/ \E j \in 1 .. (i - 1) : Below(j, i)

Last(i, e) ==
    frames[i].env = e /\ \A j \in DOMAIN frames : frames[j].env = e => j <= i
Counted ==
    \A e \in Envs :
        \/ depth[e] = 0 /\ \A i \in DOMAIN frames : frames[i].env /= e
        \/ \E i \in DOMAIN frames : Last(i, e) /\ depth[e] = frames[i].sp + 1

(* An autocommitting connection has nothing open on the server.            *)
AutocommitClean ==
    /\ frames = <<>> => autocommit
    /\ autocommit => saves = <<>> /\ ~aborted /\ view = committed

IInv == TypeOK /\ Kinds /\ Stacked /\ Counted /\ AutocommitClean
-----------------------------------------------------------------------------
(* Sequences.                                                              *)

(* A prefix of a sequence is a sequence over the same set, of the length   *)
(* asked for.                                                              *)
LEMMA PrefixFacts ==
    ASSUME NEW S, NEW s \in Seq(S), NEW n \in 0 .. Len(s)
    PROVE  /\ SubSeq(s, 1, n) \in Seq(S)
           /\ Len(SubSeq(s, 1, n)) = n
           /\ DOMAIN SubSeq(s, 1, n) = 1 .. n
           /\ \A i \in 1 .. n : SubSeq(s, 1, n)[i] = s[i]
<1>1. n \in Nat /\ 1 \in Int /\ n \in Int /\ n - 1 + 1 = n
  BY LenProperties
<1>2. \A i \in 1 .. n : s[i] \in S
  BY LenProperties
<1>3. /\ SubSeq(s, 1, n) \in Seq(S) /\ Len(SubSeq(s, 1, n)) = (IF 1 <= n THEN n - 1 + 1 ELSE 0)
      /\ \A i \in 1 .. (n - 1 + 1) : SubSeq(s, 1, n)[i] = s[1 + i - 1]
  BY <1>1, <1>2, SubSeqProperties
<1>4. ASSUME NEW i \in 1 .. n
      PROVE  SubSeq(s, 1, n)[i] = s[i]
  <2>1. 1 + i - 1 = i /\ i \in 1 .. (n - 1 + 1)
    BY <1>1
  <2>2. SubSeq(s, 1, n)[i] = s[1 + i - 1]
    BY <1>3, <2>1
  <2>. QED  BY <2>1, <2>2, Zenon
<1>5. Len(SubSeq(s, 1, n)) = n
  BY <1>1, <1>3
<1>. QED  BY <1>3, <1>4, <1>5, LenProperties

(* If a block is open, Top is the frame of the innermost one.              *)
LEMMA TopFacts ==
    ASSUME TypeOK, frames /= <<>>
    PROVE  Len(frames) \in Nat \ {0} /\ Top \in Frame /\ Len(frames) \in DOMAIN frames
BY EmptySeq, LenProperties DEF TypeOK, Top
-----------------------------------------------------------------------------
(* Entering and leaving a block keep the frames stacked and counted.       *)

(* `__enter__` counts the depth of its environment up and numbers the      *)
(* frame by it: the frames stay stacked and counted.                       *)
LEMMA PushNests ==
    ASSUME TypeOK, Kinds, Stacked, Counted,
           NEW e \in Envs, NEW kind \in {"tx", "sp"},
           kind = "tx" <=> depth[e] = 0,
           Push(e, kind, depth[e])
    PROVE  /\ frames' \in Seq(Frame) /\ depth' \in [Envs -> Nat]
           /\ Kinds' /\ Stacked' /\ Counted'
<1>. DEFINE n == Len(frames)
           new == [env |-> e, kind |-> kind, sp |-> depth[e], snap |-> view]
<1>1. n \in Nat /\ DOMAIN frames = 1 .. n /\ frames \in [1 .. n -> Frame]
  BY LenProperties DEF TypeOK
<1>2. new \in Frame
  BY DEF TypeOK, Frame
<1>3. /\ frames' \in Seq(Frame) /\ Len(frames') = n + 1 /\ DOMAIN frames' = 1 .. (n + 1)
      /\ \A i \in 1 .. n : frames'[i] = frames[i]
      /\ frames'[n + 1] = new
  <2>1. frames' = Append(frames, new)
    BY DEF Push
  <2>. HIDE DEF new
  <2>. QED  BY <1>2, <2>1, AppendProperties, LenProperties DEF TypeOK
<1>4. depth' \in [Envs -> Nat] /\ depth' = [depth EXCEPT ![e] = @ + 1]
  BY DEF TypeOK, Push
<1>5. Kinds'
  BY <1>1, <1>3 DEF Kinds
<1>6. Stacked'
  <2>. SUFFICES ASSUME NEW i \in 1 .. (n + 1)
                PROVE  (First(i) /\ frames[i].sp = 0)' \/ \E j \in 1 .. (i - 1) : Below(j, i)'
    BY <1>3 DEF Stacked
  <2>1. CASE i \in 1 .. n
    <3>1. \A j \in 1 .. i : frames'[j] = frames[j]
      BY <1>1, <1>3, <2>1
    <3>2. CASE First(i) /\ frames[i].sp = 0
      BY <2>1, <3>1, <3>2 DEF First
    <3>3. CASE \E j \in 1 .. (i - 1) : Below(j, i)
      BY <2>1, <3>1, <3>3 DEF Below
    <3>. QED  BY <1>1, <2>1, <3>2, <3>3 DEF Stacked
  <2>2. CASE i = n + 1
    <3>1. \A j \in 1 .. (i - 1) : j \in 1 .. n /\ frames'[j] = frames[j]
      BY <1>1, <1>3, <2>2
    <3>2. CASE depth[e] = 0 /\ \A j \in 1 .. n : frames[j].env /= e
      BY <1>3, <2>2, <3>1, <3>2 DEF First
    <3>3. CASE \E j \in 1 .. n : Last(j, e) /\ depth[e] = frames[j].sp + 1
      <4>1. PICK j \in 1 .. n : Last(j, e) /\ depth[e] = frames[j].sp + 1
        BY <3>3
      <4>2. frames[j].sp \in Nat /\ j \in 1 .. (i - 1)
        BY <1>1, <2>2 DEF Frame
      <4>3. \A k \in (j + 1) .. (i - 1) : k \in 1 .. n /\ frames[k].env /= e
        BY <1>1, <2>2, <4>1 DEF Last
      <4>4. Below(j, i)'
        BY <1>3, <2>2, <3>1, <4>1, <4>2, <4>3 DEF Below, Last
      <4>. QED  BY <4>2, <4>4
    <3>. QED  BY <1>1, <3>2, <3>3 DEF Counted
  <2>. QED  BY <1>1, <2>1, <2>2
<1>7. Counted'
  <2>. SUFFICES ASSUME NEW o \in Envs
                PROVE  \/ depth'[o] = 0 /\ \A i \in DOMAIN frames' : frames'[i].env /= o
                       \/ \E i \in DOMAIN frames' : Last(i, o)' /\ depth'[o] = frames'[i].sp + 1
    BY DEF Counted
  <2>1. CASE o = e
    <3>1. PICK i \in DOMAIN frames' : i = n + 1
      BY <1>1, <1>3
    <3>2. depth'[o] = frames'[i].sp + 1
      BY <1>3, <1>4, <2>1, <3>1 DEF TypeOK
    <3>3. Last(i, o)'
      BY <1>1, <1>3, <2>1, <3>1 DEF Last
    <3>. QED  BY <3>1, <3>2, <3>3
  <2>2. CASE o /= e
    <3>1. depth'[o] = depth[o]
      BY <1>4, <2>2 DEF TypeOK
    <3>2. CASE depth[o] = 0 /\ \A i \in 1 .. n : frames[i].env /= o
      BY <1>1, <1>3, <2>2, <3>1, <3>2
    <3>3. CASE \E i \in 1 .. n : Last(i, o) /\ depth[o] = frames[i].sp + 1
      <4>1. PICK i \in 1 .. n : Last(i, o) /\ depth[o] = frames[i].sp + 1
        BY <3>3
      <4>2. Last(i, o)'
        BY <1>1, <1>3, <2>2, <4>1 DEF Last
      <4>. QED  BY <1>1, <1>3, <3>1, <4>1, <4>2
    <3>. QED  BY <1>1, <3>2, <3>3 DEF Counted
  <2>. QED  BY <2>1, <2>2
<1>. QED  BY <1>3, <1>4, <1>5, <1>6, <1>7

(* After `__enter__` a block is open.                                      *)
LEMMA PushGrows ==
    ASSUME TypeOK, NEW e \in Envs, NEW kind \in {"tx", "sp"}, Push(e, kind, depth[e])
    PROVE  frames' /= <<>>
<1>1. [env |-> e, kind |-> kind, sp |-> depth[e], snap |-> view] \in Frame
  BY DEF TypeOK, Frame
<1>. QED  BY <1>1, AppendProperties DEF TypeOK, Push

(* The finally clause of `__exit__` counts the depth down: what is left is *)
(* stacked and counted as before.                                          *)
LEMMA PopNests ==
    ASSUME TypeOK, Kinds, Stacked, Counted, frames /= <<>>,
           frames' = Popped, depth' = [depth EXCEPT ![Top.env] = @ - 1]
    PROVE  /\ frames' \in Seq(Frame) /\ depth' \in [Envs -> Nat]
           /\ Kinds' /\ Stacked' /\ Counted'
           /\ depth[Top.env] = Top.sp + 1
<1>. DEFINE n == Len(frames)
           e == Top.env
<1>1. /\ n \in Nat \ {0} /\ DOMAIN frames = 1 .. n /\ frames \in [1 .. n -> Frame]
      /\ Top = frames[n] /\ Top \in Frame /\ e \in Envs
  BY TopFacts, LenProperties DEF TypeOK, Top, Frame
<1>2. /\ frames' \in Seq(Frame) /\ DOMAIN frames' = 1 .. (n - 1)
      /\ \A i \in 1 .. (n - 1) : frames'[i] = frames[i]
  <2>1. n - 1 \in 0 .. n
    BY <1>1
  <2>. QED  BY <2>1, PrefixFacts DEF TypeOK, Popped
<1>3. depth[e] = Top.sp + 1
  BY <1>1 DEF Counted, Last
<1>4. depth' \in [Envs -> Nat] /\ depth'[e] = Top.sp /\ \A o \in Envs : o /= e => depth'[o] = depth[o]
  BY <1>1, <1>3 DEF TypeOK, Frame
<1>5. Kinds'
  BY <1>1, <1>2 DEF Kinds
<1>6. Stacked'
  <2>. SUFFICES ASSUME NEW i \in 1 .. (n - 1)
                PROVE  (First(i) /\ frames[i].sp = 0)' \/ \E j \in 1 .. (i - 1) : Below(j, i)'
    BY <1>2 DEF Stacked
  <2>1. \A j \in 1 .. i : frames'[j] = frames[j]
    BY <1>1, <1>2
  <2>2. i \in DOMAIN frames
    BY <1>1
  <2>3. CASE First(i) /\ frames[i].sp = 0
    BY <2>1, <2>3 DEF First
  <2>4. CASE \E j \in 1 .. (i - 1) : Below(j, i)
    BY <2>1, <2>4 DEF Below
  <2>. QED  BY <2>2, <2>3, <2>4 DEF Stacked
<1>7. Counted'
  <2>. SUFFICES ASSUME NEW o \in Envs
                PROVE  \/ depth'[o] = 0 /\ \A i \in DOMAIN frames' : frames'[i].env /= o
                       \/ \E i \in DOMAIN frames' : Last(i, o)' /\ depth'[o] = frames'[i].sp + 1
    BY DEF Counted
  <2>1. CASE o = e
    <3>1. CASE First(n) /\ frames[n].sp = 0
      BY <1>1, <1>2, <1>4, <2>1, <3>1 DEF First
    <3>2. CASE \E j \in 1 .. (n - 1) : Below(j, n)
      <4>1. PICK j \in 1 .. (n - 1) : Below(j, n)
        BY <3>2
      <4>2. frames[j].sp \in Nat /\ frames[n].sp \in Nat
        BY <1>1 DEF Frame
      <4>3. Last(j, o)' /\ depth'[o] = frames'[j].sp + 1
        BY <1>1, <1>2, <1>4, <2>1, <4>1, <4>2 DEF Last, Below
      <4>. QED  BY <1>2, <4>3
    <3>. QED  BY <1>1, <3>1, <3>2 DEF Stacked
  <2>2. CASE o /= e
    <3>1. depth'[o] = depth[o]
      BY <1>4, <2>2
    <3>2. CASE depth[o] = 0 /\ \A i \in 1 .. n : frames[i].env /= o
      BY <1>1, <1>2, <3>1, <3>2
    <3>3. CASE \E i \in 1 .. n : Last(i, o) /\ depth[o] = frames[i].sp + 1
      <4>1. PICK i \in 1 .. n : Last(i, o) /\ depth[o] = frames[i].sp + 1
        BY <3>3
      <4>2. i \in 1 .. (n - 1)
        BY <1>1, <2>2, <4>1 DEF Last
      <4>3. Last(i, o)'
        BY <1>1, <1>2, <4>1, <4>2 DEF Last
      <4>. QED  BY <1>2, <3>1, <4>1, <4>2, <4>3
    <3>. QED  BY <1>1, <3>2, <3>3 DEF Counted
  <2>. QED  BY <2>1, <2>2
<1>. QED  BY <1>2, <1>3, <1>4, <1>5, <1>6, <1>7
-----------------------------------------------------------------------------
(* The inductive invariant.                                                *)

(* A step that touches neither the frames nor the depths keeps them        *)
(* stacked and counted.                                                    *)
LEMMA StayNests ==
    ASSUME TypeOK, Kinds, Stacked, Counted, UNCHANGED <<frames, depth>>
    PROVE  /\ frames' \in Seq(Frame) /\ depth' \in [Envs -> Nat]
           /\ Kinds' /\ Stacked' /\ Counted'
BY DEF TypeOK, Kinds, Stacked, First, Below, Counted, Last

(* A connection nobody has used yet satisfies the invariant.               *)
LEMMA InitIInv == Init => IInv
<1>. SUFFICES ASSUME Init PROVE IInv
  OBVIOUS
<1>1. frames = <<>> /\ frames \in Seq(Frame) /\ saves \in Seq(Save) /\ DOMAIN frames = {}
  BY EmptySeq DEF Init
<1>. QED  BY <1>1 DEF Init, IInv, TypeOK, Kinds, Stacked, Counted, AutocommitClean, Store

(* A step that enters no block and leaves none.                            *)
LEMMA BodyStep ==
    ASSUME IInv,
           \/ \E e \in TxEnvs : EnterRefused(e)
           \/ \E k \in Keys : Read(k) \/ \E v \in Vals : Write(k, v)
           \/ StatementFails \/ Raise \/ Catch
           \/ UNCHANGED vars
    PROVE  IInv'
<1>. USE DEF IInv
<1>1. UNCHANGED <<frames, depth>>
  BY DEF EnterRefused, Read, Write, StatementFails, Raise, Catch, vars
<1>2. frames' \in Seq(Frame) /\ depth' \in [Envs -> Nat] /\ Kinds' /\ Stacked' /\ Counted'
  BY <1>1, StayNests
<1>3. TypeOK'
  BY <1>2 DEF EnterRefused, Read, Write, StatementFails, Raise, Catch, vars, server, TypeOK, Store
<1>4. AutocommitClean'
  <2>1. ASSUME NEW k \in Keys, NEW v \in Vals, Write(k, v)
        PROVE  AutocommitClean'
    BY <2>1 DEF Write, AutocommitClean
  <2>2. ASSUME UNCHANGED <<committed, view, saves, autocommit>>,
               aborted' => aborted \/ ~autocommit
        PROVE  AutocommitClean'
    <3>1. frames' = frames /\ committed' = committed /\ view' = view /\ saves' = saves /\ autocommit' = autocommit
      BY <1>1, <2>2
    <3>2. frames' = <<>> => autocommit'
      BY <3>1 DEF AutocommitClean
    <3>3. autocommit' => saves' = <<>> /\ view' = committed'
      BY <3>1 DEF AutocommitClean
    <3>4. autocommit' => ~aborted'
      BY <2>2, <3>1 DEF AutocommitClean
    <3>. QED  BY <3>2, <3>3, <3>4 DEF AutocommitClean
  <2>3. CASE StatementFails
    BY <2>2, <2>3 DEF StatementFails
  <2>4. CASE UNCHANGED <<server, autocommit>>
    BY <2>2, <2>4 DEF server
  <2>. QED
    BY <2>1, <2>3, <2>4 DEF EnterRefused, Read, Raise, Catch, vars, server
<1>. QED  BY <1>2, <1>3, <1>4

(* Entering a block, the outermost or an inner one, preserves the          *)
(* invariant.                                                              *)
LEMMA EnterStep ==
    ASSUME IInv, NEW e \in Envs, EnterTx(e) \/ EnterSavepoint(e)
    PROVE  IInv'
<1>. USE DEF IInv
<1>1. /\ frames' \in Seq(Frame) /\ depth' \in [Envs -> Nat]
      /\ Kinds' /\ Stacked' /\ Counted' /\ frames' /= <<>>
  <2>1. CASE EnterTx(e)
    <3>1. Push(e, "tx", depth[e]) /\ depth[e] = 0
      BY <2>1 DEF EnterTx
    <3>2. Kinds' /\ Stacked' /\ Counted' /\ frames' \in Seq(Frame) /\ depth' \in [Envs -> Nat]
      BY <3>1, PushNests
    <3>3. frames' /= <<>>
      BY <3>1, PushGrows
    <3>. QED  BY <3>2, <3>3
  <2>2. CASE EnterSavepoint(e)
    <3>1. Push(e, "sp", depth[e]) /\ depth[e] /= 0
      BY <2>2 DEF EnterSavepoint, TypeOK
    <3>2. Kinds' /\ Stacked' /\ Counted' /\ frames' \in Seq(Frame) /\ depth' \in [Envs -> Nat]
      BY <3>1, PushNests
    <3>3. frames' /= <<>>
      BY <3>1, PushGrows
    <3>. QED  BY <3>2, <3>3
  <2>. QED  BY <2>1, <2>2
<1>2. saves' \in Seq(Save)
  <2>1. CASE EnterTx(e)
    BY <2>1 DEF EnterTx, server, TypeOK
  <2>2. CASE EnterSavepoint(e)
    <3>1. [name |-> depth[e], snap |-> view] \in Save
      BY DEF TypeOK, Save
    <3>. QED  BY <2>2, <3>1, AppendProperties DEF EnterSavepoint, TypeOK
  <2>. QED  BY <2>1, <2>2
<1>3. TypeOK'
  BY <1>1, <1>2 DEF EnterTx, EnterSavepoint, server, TypeOK
<1>4. ~autocommit'
  BY DEF EnterTx, EnterSavepoint
<1>. QED  BY <1>1, <1>3, <1>4 DEF AutocommitClean

(* What every way out of a block does to the stack and the connection.     *)
LEMMA PopKeeps ==
    ASSUME IInv, frames /= <<>>, Pop
    PROVE  /\ frames' \in Seq(Frame) /\ depth' \in [Envs -> Nat]
           /\ Kinds' /\ Stacked' /\ Counted'
           /\ cache' = cache /\ autocommit' \in BOOLEAN
           /\ Top.kind = "sp" => autocommit' = autocommit /\ frames' /= <<>>
           /\ frames' = <<>> => autocommit'
<1>. USE DEF IInv
<1>1. /\ frames' \in Seq(Frame) /\ depth' \in [Envs -> Nat]
      /\ Kinds' /\ Stacked' /\ Counted' /\ depth[Top.env] = Top.sp + 1
  BY PopNests DEF Pop
<1>2. /\ Len(frames) \in Nat \ {0} /\ DOMAIN frames = 1 .. Len(frames)
      /\ Top = frames[Len(frames)] /\ Top \in Frame
  BY TopFacts, LenProperties DEF TypeOK, Top
<1>3. Top.kind = "sp" => Top.sp /= 0
  BY <1>2 DEF Kinds
<1>4. Len(frames') = Len(frames) - 1
  <2>1. Len(frames) - 1 \in 0 .. Len(frames)
    BY <1>2
  <2>. QED  BY <2>1, PrefixFacts DEF TypeOK, Pop, Popped
<1>5. frames' = <<>> => Top.sp = 0
  <2>. SUFFICES ASSUME frames' = <<>> PROVE Top.sp = 0
    OBVIOUS
  <2>1. Len(frames') = 0
    BY EmptySeq
  <2>2. Len(frames) = 1
    <3>1. Len(frames) \in Int
      BY <1>2
    <3>. QED  BY <1>4, <2>1, <3>1
  <2>. QED  BY <1>2, <2>2 DEF Stacked
<1>6. autocommit' = (autocommit \/ Top.sp = 0)
  <2>1. Top.sp \in Nat
    BY <1>2 DEF Frame
  <2>. QED  BY <1>1, <2>1 DEF Pop
<1>7. autocommit \in BOOLEAN /\ autocommit' \in BOOLEAN
  BY <1>6 DEF TypeOK
<1>8. Top.kind = "sp" => autocommit' = autocommit
  BY <1>3, <1>6, <1>7
<1>. QED  BY <1>1, <1>3, <1>5, <1>6, <1>7, <1>8 DEF Pop

(* The server's savepoints up to one of them, with it or without it, are a *)
(* sequence of savepoints.                                                 *)
LEMMA PrefixOfSaves ==
    ASSUME TypeOK, NEW m \in DOMAIN saves, NEW n \in {m - 1, m}
    PROVE  SubSeq(saves, 1, n) \in Seq(Save) /\ Len(SubSeq(saves, 1, n)) = n
<1>1. n \in 0 .. Len(saves)
  BY LenProperties DEF TypeOK
<1>. QED  BY <1>1, PrefixFacts DEF TypeOK

(* Leaving a block, in each of the six ways `__exit__` can end, preserves  *)
(* the invariant.                                                          *)
LEMMA LeaveStep ==
    ASSUME IInv,
           Commit \/ CommitAborted \/ Rollback \/ Release \/ RollbackTo \/ SavepointGone
    PROVE  IInv'
<1>. USE DEF IInv
<1>1. frames /= <<>> /\ Pop
  BY DEF Commit, CommitAborted, Rollback, Undo, Release, RollbackTo, SavepointGone
<1>2. /\ frames' \in Seq(Frame) /\ depth' \in [Envs -> Nat]
      /\ Kinds' /\ Stacked' /\ Counted'
      /\ cache' = cache /\ autocommit' \in BOOLEAN
      /\ Top.kind = "sp" => autocommit' = autocommit /\ frames' /= <<>>
      /\ frames' = <<>> => autocommit'
  BY <1>1, PopKeeps
<1>3. CASE Commit \/ CommitAborted \/ Rollback
  <2>1. /\ saves' = <<>> /\ view' = committed' /\ ~aborted' /\ committed' \in Store
        /\ aborted' \in BOOLEAN /\ exc' \in BOOLEAN /\ saves' \in Seq(Save)
    <3>1. CASE Commit
      BY <3>1, EmptySeq DEF Commit, TypeOK
    <3>2. ASSUME NEW raised \in BOOLEAN, Undo(raised)
          PROVE  /\ saves' = <<>> /\ view' = committed' /\ ~aborted' /\ committed' \in Store
                 /\ aborted' \in BOOLEAN /\ exc' \in BOOLEAN /\ saves' \in Seq(Save)
      BY <3>2, EmptySeq DEF Undo, TypeOK
    <3>. QED  BY <1>3, <3>1, <3>2 DEF CommitAborted, Rollback
  <2>. QED  BY <1>2, <2>1 DEF TypeOK, AutocommitClean
<1>4. CASE Release
  <2>1. PICK m \in DOMAIN saves : IsLatest(m, Top.sp) /\ saves' = SubSeq(saves, 1, m - 1)
    BY <1>4 DEF Release
  <2>2. saves' \in Seq(Save)
    BY <2>1, PrefixOfSaves
  <2>3. autocommit' = autocommit /\ ~autocommit
    <3>1. autocommit => DOMAIN saves = {}
      BY EmptySeq, LenProperties DEF AutocommitClean, TypeOK
    <3>. QED  BY <1>2, <1>4, <2>1, <3>1 DEF Release
  <2>. QED  BY <1>2, <1>4, <2>2, <2>3 DEF Release, TypeOK, AutocommitClean
<1>5. CASE RollbackTo
  <2>1. PICK m \in DOMAIN saves :
          IsLatest(m, Top.sp) /\ view' = saves[m].snap /\ saves' = SubSeq(saves, 1, m)
    BY <1>5 DEF RollbackTo
  <2>2. saves' \in Seq(Save)
    BY <2>1, PrefixOfSaves
  <2>3. view' \in Store
    <3>1. saves[m] \in Save
      BY LenProperties DEF TypeOK
    <3>. QED  BY <2>1, <3>1 DEF Save
  <2>4. autocommit' = autocommit /\ ~autocommit
    <3>1. autocommit => DOMAIN saves = {}
      BY EmptySeq, LenProperties DEF AutocommitClean, TypeOK
    <3>. QED  BY <1>2, <1>5, <2>1, <3>1 DEF RollbackTo
  <2>. QED  BY <1>2, <1>5, <2>2, <2>3, <2>4 DEF RollbackTo, TypeOK, AutocommitClean
<1>6. CASE SavepointGone
  <2>1. UNCHANGED <<committed, view, saves>> /\ exc' = TRUE /\ autocommit' = autocommit
        /\ frames' /= <<>>
    BY <1>2, <1>6 DEF SavepointGone
  <2>2. aborted' = ~autocommit
    BY <1>6 DEF SavepointGone
  <2>3. aborted' \in BOOLEAN
    BY <2>2
  <2>4. TypeOK'
    BY <1>2, <2>1, <2>3 DEF TypeOK
  <2>5. autocommit' => ~aborted'
    BY <2>1, <2>2
  <2>. QED  BY <1>2, <2>1, <2>4, <2>5 DEF AutocommitClean
<1>. QED  BY <1>3, <1>4, <1>5, <1>6

(* The invariant is inductive: every step of any environment preserves it. *)
LEMMA StepIInv == IInv /\ [Next]_vars => IInv'
<1>. SUFFICES ASSUME IInv, [Next]_vars PROVE IInv'
  OBVIOUS
<1>1. TxEnvs \subseteq Envs
  BY EnvAssumption
<1>. QED  BY <1>1, BodyStep, EnterStep, LeaveStep DEF Next
-----------------------------------------------------------------------------
(* The theorems.                                                           *)

(* In every reachable state the frames of an environment are numbered from *)
(* the bottom up, env._tx_depth counts them, and a connection in           *)
(* autocommit has nothing open on the server (`transaction`, env.py).      *)
THEOREM InvariantHolds == Spec => []IInv
BY InitIInv, StepIInv, PTL DEF Spec

(* Whatever the environments do, every variable keeps its type; the depth  *)
(* counters of env.py never go below zero.                                 *)
THEOREM TypeCorrect == Spec => []TypeOK
<1>1. IInv => TypeOK
  BY DEF IInv
<1>. QED  BY <1>1, InvariantHolds, PTL

(* Whatever way the blocks of any number of environments were left, once   *)
(* all are, the connection is back in autocommit with nothing pending.     *)
THEOREM HandoverIsClean == Spec => []CleanHandover
<1>1. IInv => CleanHandover
  BY DEF IInv, AutocommitClean, CleanHandover
<1>. QED  BY <1>1, InvariantHolds, PTL

(* The cache stops agreeing with the database only in a step that leaves a *)
(* block and takes its work back.                                          *)
LEMMA CacheStep ==
    ASSUME IInv, [Next]_vars, Coherent
    PROVE  Coherent' \/ (Len(frames') < Len(frames) /\ view' /= view)
<1>. USE DEF IInv
<1>1. CASE UNCHANGED <<view, cache>>
  BY <1>1 DEF Coherent
<1>2. ASSUME NEW k \in Keys, Read(k)
      PROVE  Coherent'
  BY <1>2 DEF Read, server, Coherent, TypeOK
<1>3. ASSUME NEW k \in Keys, NEW v \in Vals, Write(k, v)
      PROVE  Coherent'
  BY <1>3 DEF Write, Coherent, TypeOK, Store
<1>4. CASE frames /= <<>> /\ Pop
  <2>1. Len(frames) - 1 \in 0 .. Len(frames) /\ Len(frames) \in Nat
    BY <1>4, TopFacts
  <2>2. Len(frames') = Len(frames) - 1
    BY <1>4, <2>1, PrefixFacts DEF Pop, Popped, TypeOK
  <2>3. cache' = cache /\ Len(frames') < Len(frames)
    BY <1>4, <2>1, <2>2 DEF Pop
  <2>. QED  BY <1>1, <2>3
<1>. QED
  BY <1>1, <1>2, <1>3, <1>4
  DEF Next, vars, server, EnterTx, EnterSavepoint, EnterRefused, StatementFails, Raise, Catch,
      Commit, CommitAborted, Rollback, Undo, Release, RollbackTo, SavepointGone

(* The value cache (env.cache) follows every statement of a block; it      *)
(* comes to disagree with what the connection reads only in `__exit__`,    *)
(* when a block's work is taken back.                                      *)
THEOREM CacheLostOnlyByUndoHolds == Spec => CacheLostOnlyByUndo
BY InvariantHolds, CacheStep, PTL DEF Spec, CacheLostOnlyByUndo
-----------------------------------------------------------------------------
(* While one environment opens the blocks, a frame's savepoint carries the *)
(* number of the frame, and for every open block the server still has what *)
(* the connection read when it was entered.                                *)
OneEnv(n) == \A i, j \in 1 .. n : frames[i].env = frames[j].env
Numbered == \A n \in DOMAIN frames : OneEnv(n) => frames[n].sp = n - 1

Saved(i) ==
    \E m \in DOMAIN saves :
        /\ saves[m].name = i - 1 /\ saves[m].snap = frames[i].snap
        /\ \A l \in DOMAIN saves : l > m => saves[l].name > i - 1
Recoverable ==
    Regular => /\ frames /= <<>> => frames[1].snap = committed
               /\ \A i \in 2 .. Len(frames) : Saved(i)

(* `__enter__` adds one frame, on top, and leaves the others alone.        *)
LEMMA PushFrames ==
    ASSUME TypeOK, NEW e \in Envs, NEW kind \in {"tx", "sp"}, Push(e, kind, depth[e])
    PROVE  /\ Len(frames) \in Nat /\ DOMAIN frames = 1 .. Len(frames)
           /\ Len(frames') = Len(frames) + 1 /\ DOMAIN frames' = 1 .. (Len(frames) + 1)
           /\ \A i \in 1 .. Len(frames) : frames'[i] = frames[i]
           /\ frames'[Len(frames) + 1].env = e /\ frames'[Len(frames) + 1].sp = depth[e]
           /\ frames'[Len(frames) + 1].snap = view
<1>. DEFINE new == [env |-> e, kind |-> kind, sp |-> depth[e], snap |-> view]
<1>1. new \in Frame
  BY DEF TypeOK, Frame
<1>2. frames' = Append(frames, new)
  BY DEF Push
<1>. HIDE DEF new
<1>3. /\ Len(frames) \in Nat /\ DOMAIN frames = 1 .. Len(frames)
      /\ Len(frames') = Len(frames) + 1 /\ DOMAIN frames' = 1 .. (Len(frames) + 1)
      /\ \A i \in 1 .. Len(frames) : frames'[i] = frames[i]
      /\ frames'[Len(frames) + 1] = new
  BY <1>1, <1>2, AppendProperties, LenProperties DEF TypeOK
<1>. QED  BY <1>3 DEF new

(* `__exit__` removes the top frame and leaves the others alone.           *)
LEMMA PopFrames ==
    ASSUME TypeOK, frames /= <<>>, Pop
    PROVE  /\ Len(frames) \in Nat \ {0} /\ DOMAIN frames = 1 .. Len(frames)
           /\ Len(frames') = Len(frames) - 1 /\ DOMAIN frames' = 1 .. (Len(frames) - 1)
           /\ \A i \in 1 .. (Len(frames) - 1) : frames'[i] = frames[i]
           /\ Top = frames[Len(frames)] /\ Top \in Frame
<1>1. /\ Len(frames) \in Nat \ {0} /\ DOMAIN frames = 1 .. Len(frames)
      /\ Top = frames[Len(frames)] /\ Top \in Frame
  BY TopFacts, LenProperties DEF TypeOK, Top
<1>2. Len(frames) - 1 \in 0 .. Len(frames)
  BY <1>1
<1>. QED  BY <1>1, <1>2, PrefixFacts DEF Pop, Popped, TypeOK

(* The frame an environment would push next is numbered by its depth.      *)
LEMMA DepthIsLen ==
    ASSUME IInv, Numbered, NEW e \in Envs,
           \A i \in DOMAIN frames : frames[i].env = e
    PROVE  depth[e] = Len(frames)
<1>. USE DEF IInv
<1>. DEFINE n == Len(frames)
<1>1. n \in Nat /\ DOMAIN frames = 1 .. n
  BY LenProperties DEF TypeOK
<1>2. CASE n = 0
  BY <1>1, <1>2 DEF Counted
<1>3. CASE n /= 0
  <2>1. PICK i \in 1 .. n : Last(i, e) /\ depth[e] = frames[i].sp + 1
    BY <1>1, <1>3 DEF Counted
  <2>2. i = n
    <3>1. n \in DOMAIN frames
      BY <1>1, <1>3
    <3>2. n <= i
      BY <2>1, <3>1 DEF Last
    <3>3. n \in Nat
      BY <1>1
    <3>. QED  BY <3>2, <3>3
  <2>3. OneEnv(n)
    BY <1>1 DEF OneEnv
  <2>4. frames[n].sp = n - 1
    BY <1>1, <1>3, <2>3 DEF Numbered
  <2>. QED  BY <1>1, <2>1, <2>2, <2>4
<1>. QED  BY <1>2, <1>3

(* Every step preserves that, below a frame all of one environment,        *)
(* savepoints are numbered like the frames.                                *)
LEMMA NumberedStep ==
    ASSUME IInv, Numbered, [Next]_vars
    PROVE  Numbered'
<1>. USE DEF IInv
<1>1. CASE UNCHANGED frames
  BY <1>1 DEF Numbered, OneEnv
<1>2. ASSUME NEW e \in Envs, NEW kind \in {"tx", "sp"}, Push(e, kind, depth[e])
      PROVE  Numbered'
  <2>. SUFFICES ASSUME NEW m \in DOMAIN frames', OneEnv(m)'
                PROVE  frames'[m].sp = m - 1
    BY DEF Numbered
  <2>0. /\ Len(frames) \in Nat /\ DOMAIN frames = 1 .. Len(frames)
        /\ DOMAIN frames' = 1 .. (Len(frames) + 1)
        /\ \A i \in 1 .. Len(frames) : frames'[i] = frames[i]
        /\ frames'[Len(frames) + 1].env = e /\ frames'[Len(frames) + 1].sp = depth[e]
    BY <1>2, PushFrames
  <2>1. CASE m \in DOMAIN frames
    <3>1. OneEnv(m) /\ frames'[m] = frames[m]
      BY <2>0, <2>1 DEF OneEnv
    <3>. QED  BY <2>1, <3>1 DEF Numbered
  <2>2. CASE m \notin DOMAIN frames
    <3>1. m = Len(frames) + 1 /\ frames'[m].env = e /\ frames'[m].sp = depth[e] /\ Len(frames) \in Nat
      BY <2>0, <2>2
    <3>2. \A i \in DOMAIN frames : frames[i].env = e
      BY <2>0, <3>1 DEF OneEnv
    <3>3. depth[e] = Len(frames)
      BY <3>2, DepthIsLen
    <3>. QED  BY <3>1, <3>3
  <2>. QED  BY <2>1, <2>2
<1>3. CASE frames /= <<>> /\ Pop
  BY <1>3, PopFrames DEF Numbered, OneEnv
<1>4. ASSUME NEW e \in Envs, EnterTx(e)
      PROVE  Push(e, "tx", depth[e])
  BY <1>4 DEF EnterTx
<1>5. TxEnvs \subseteq Envs
  BY EnvAssumption
<1>. QED
  BY <1>1, <1>2, <1>3, <1>4, <1>5
  DEF Next, vars, EnterSavepoint, EnterRefused, Read, Write, StatementFails, Raise, Catch,
      Commit, CommitAborted, Rollback, Undo, Release, RollbackTo, SavepointGone

(* Once two environments have mixed their blocks, the connection is not in *)
(* a transaction again before all blocks have been left.                   *)
LEMMA StaysRegular ==
    ASSUME IInv, [Next]_vars, Regular', frames' /= <<>>
    PROVE  /\ Regular
           /\ \A e \in Envs : EnterTx(e) => frames = <<>>
<1>. USE DEF IInv
<1>1. ASSUME NEW e \in Envs, NEW kind \in {"tx", "sp"}, Push(e, kind, depth[e])
      PROVE  \A i \in DOMAIN frames : frames[i].env = e
  <2>1. /\ Len(frames) \in Nat /\ DOMAIN frames = 1 .. Len(frames)
        /\ DOMAIN frames' = 1 .. (Len(frames) + 1)
        /\ \A i \in 1 .. Len(frames) : frames'[i] = frames[i]
        /\ frames'[Len(frames) + 1].env = e /\ frames'[Len(frames) + 1].sp = depth[e]
    BY <1>1, PushFrames
  <2>. QED  BY <2>1 DEF Regular
<1>2. ASSUME NEW e \in Envs, EnterTx(e)
      PROVE  frames = <<>>
  <2>1. Push(e, "tx", depth[e]) /\ depth[e] = 0
    BY <1>2 DEF EnterTx
  <2>2. \A i \in DOMAIN frames : frames[i].env = e
    BY <1>1, <2>1
  <2>3. DOMAIN frames = {}
    <3>. SUFFICES ASSUME NEW i \in DOMAIN frames PROVE FALSE
      OBVIOUS
    <3>1. PICK j \in DOMAIN frames : depth[e] = frames[j].sp + 1
      BY <2>2 DEF Counted
    <3>2. frames[j] \in Frame
      BY LenProperties DEF TypeOK
    <3>3. frames[j].sp \in Nat
      BY <3>2 DEF Frame
    <3>. QED  BY <2>1, <3>1, <3>3
  <2>. QED  BY <2>3, EmptySeq, LenProperties DEF TypeOK
<1>3. ASSUME NEW e \in Envs, EnterSavepoint(e)
      PROVE  Regular
  <2>1. Push(e, "sp", depth[e]) /\ ~autocommit
    BY <1>3 DEF EnterSavepoint
  <2>. QED  BY <1>1, <2>1 DEF Regular
<1>4. CASE frames /= <<>> /\ Pop
  <2>1. ~autocommit /\ depth[Top.env] /= 1
    BY <1>4 DEF Regular, Pop
  <2>2. depth[Top.env] = Top.sp + 1
    BY <1>4, PopNests DEF Pop
  <2>3. PICK j \in 1 .. (Len(frames) - 1) : Below(j, Len(frames))
    BY <1>4, <2>1, <2>2, PopFrames DEF Stacked
  <2>4. \A i \in 1 .. (Len(frames) - 1) : frames[i].env = frames[j].env
    BY <1>4, <2>3, PopFrames DEF Regular
  <2>5. \A i \in DOMAIN frames : frames[i].env = frames[j].env
    BY <1>4, <2>3, <2>4, PopFrames DEF Below
  <2>. QED  BY <1>2, <2>1, <2>5 DEF Regular
<1>5. CASE UNCHANGED <<frames, autocommit>>
  BY <1>2, <1>5 DEF Regular
<1>6. TxEnvs \subseteq Envs
  BY EnvAssumption
<1>7. CASE \E e \in TxEnvs : EnterTx(e)
  <2>1. frames = <<>> /\ DOMAIN frames = {}
    BY <1>2, <1>6, <1>7
  <2>. QED  BY <1>2, <2>1 DEF Regular
<1>. QED
  BY <1>2, <1>3, <1>4, <1>5, <1>6, <1>7
  DEF Next, vars, EnterRefused, Read, Write, StatementFails, Raise, Catch,
      Commit, CommitAborted, Rollback, Undo, Release, RollbackTo, SavepointGone

(* While the blocks are regular, the top frame is numbered by its height,  *)
(* and every frame but the bottom one has its savepoint.                   *)
LEMMA SavedFacts ==
    ASSUME IInv, Numbered, Recoverable, Regular, frames /= <<>>
    PROVE  /\ Top.sp = Len(frames) - 1 /\ frames[1].snap = committed
           /\ Top.kind = "tx" <=> Len(frames) = 1
           /\ \A i \in 2 .. Len(frames) : Saved(i)
           /\ Top.kind = "sp" => Len(frames) \in 2 .. Len(frames)
<1>. USE DEF IInv
<1>1. /\ Len(frames) \in Nat \ {0} /\ DOMAIN frames = 1 .. Len(frames)
      /\ Top = frames[Len(frames)] /\ Top \in Frame
  BY TopFacts, LenProperties DEF TypeOK, Top
<1>2. OneEnv(Len(frames))
  BY <1>1 DEF Regular, OneEnv
<1>3. Top.sp = Len(frames) - 1
  BY <1>1, <1>2 DEF Numbered
<1>4. Top.kind = "tx" <=> Len(frames) = 1
  BY <1>1, <1>3 DEF Kinds
<1>. QED  BY <1>1, <1>3, <1>4 DEF Recoverable, Frame

(* The savepoint the server finds for the top block is its own: it holds   *)
(* the block's snapshot, and the savepoints of the blocks below are older. *)
LEMMA OwnSavepoint ==
    ASSUME IInv, Numbered, Recoverable, Regular, frames /= <<>>, Top.kind = "sp",
           NEW m \in DOMAIN saves, IsLatest(m, Top.sp)
    PROVE  /\ saves[m].snap = Top.snap
           /\ \A i \in 2 .. (Len(frames) - 1) :
                \E k \in 1 .. (m - 1) :
                    /\ saves[k].name = i - 1 /\ saves[k].snap = frames[i].snap
                    /\ \A l \in DOMAIN saves : l > k => saves[l].name > i - 1
<1>. USE DEF IInv
<1>. DEFINE n == Len(frames)
<1>1. /\ n \in 2 .. n /\ n \in Nat /\ Top = frames[n] /\ Top.sp = n - 1 /\ \A i \in 2 .. n : Saved(i)
  BY SavedFacts, TopFacts DEF Top
<1>2. DOMAIN saves = 1 .. Len(saves) /\ Len(saves) \in Nat /\ \A k \in DOMAIN saves : saves[k] \in Save
  BY LenProperties DEF TypeOK
<1>3. \A k \in DOMAIN saves : k \in Nat /\ saves[k].name \in Nat
  BY <1>2 DEF Save
<1>4. saves[m].name = n - 1
  BY <1>1 DEF IsLatest, Named
<1>5. PICK o \in DOMAIN saves :
        /\ saves[o].name = n - 1 /\ saves[o].snap = frames[n].snap
        /\ \A l \in DOMAIN saves : l > o => saves[l].name > n - 1
  BY <1>1 DEF Saved
<1>6. o = m
  <2>1. o <= m
    BY <1>1, <1>5 DEF IsLatest, Named
  <2>2. ~(m > o)
    BY <1>1, <1>3, <1>4, <1>5
  <2>. QED  BY <1>3, <2>1, <2>2
<1>7. ASSUME NEW i \in 2 .. (n - 1)
      PROVE  \E k \in 1 .. (m - 1) :
                /\ saves[k].name = i - 1 /\ saves[k].snap = frames[i].snap
                /\ \A l \in DOMAIN saves : l > k => saves[l].name > i - 1
  <2>1. i \in 2 .. n /\ i - 1 < n - 1 /\ i \in Nat
    BY <1>1
  <2>2. PICK k \in DOMAIN saves :
          /\ saves[k].name = i - 1 /\ saves[k].snap = frames[i].snap
          /\ \A l \in DOMAIN saves : l > k => saves[l].name > i - 1
    BY <1>1, <2>1 DEF Saved
  <2>3. k /= m
    BY <1>1, <1>4, <2>1, <2>2
  <2>4. ~(k > m)
    BY <1>1, <1>3, <1>5, <1>6, <2>1, <2>2
  <2>5. k \in 1 .. (m - 1)
    BY <1>2, <2>3, <2>4
  <2>. QED  BY <2>2, <2>5
<1>. QED  BY <1>1, <1>5, <1>6, <1>7

(* RELEASE and ROLLBACK TO of the top frame's own savepoint leave the      *)
(* savepoints of the frames below on the server.                           *)
LEMMA PrefixRecoverable ==
    ASSUME IInv, Numbered, Recoverable, Regular, frames /= <<>>, Top.kind = "sp",
           NEW m \in DOMAIN saves, IsLatest(m, Top.sp), NEW p \in {m - 1, m},
           Pop, saves' = SubSeq(saves, 1, p), committed' = committed
    PROVE  Recoverable'
<1>. USE DEF IInv
<1>. DEFINE n == Len(frames)
<1>1. n \in 2 .. n /\ n \in Nat /\ frames[1].snap = committed
  BY SavedFacts, TopFacts
<1>2. Len(frames') = n - 1 /\ \A i \in 1 .. (n - 1) : frames'[i] = frames[i]
  BY PopFrames
<1>3. /\ DOMAIN saves' = 1 .. p /\ \A k \in 1 .. p : saves'[k] = saves[k]
      /\ DOMAIN saves = 1 .. Len(saves) /\ Len(saves) \in Nat /\ p \in 0 .. Len(saves)
  <2>1. DOMAIN saves = 1 .. Len(saves) /\ Len(saves) \in Nat /\ p \in 0 .. Len(saves)
    BY LenProperties DEF TypeOK
  <2>. QED  BY <2>1, PrefixFacts DEF TypeOK
<1>4. frames'[1].snap = committed'
  <2>1. 1 \in 1 .. (n - 1)
    BY <1>1
  <2>. QED  BY <1>1, <1>2, <2>1
<1>5. ASSUME NEW i \in 2 .. (n - 1)
      PROVE  Saved(i)'
  <2>1. PICK k \in 1 .. (m - 1) :
          /\ saves[k].name = i - 1 /\ saves[k].snap = frames[i].snap
          /\ \A l \in DOMAIN saves : l > k => saves[l].name > i - 1
    BY OwnSavepoint
  <2>2. k \in DOMAIN saves' /\ saves'[k] = saves[k]
    BY <1>3
  <2>3. frames'[i] = frames[i]
    BY <1>1, <1>2
  <2>4. \A l \in DOMAIN saves' : l \in DOMAIN saves /\ saves'[l] = saves[l]
    BY <1>3
  <2>. QED  BY <2>1, <2>2, <2>3, <2>4 DEF Saved
<1>. QED  BY <1>2, <1>4, <1>5 DEF Recoverable

(* Every step preserves that each regular open block can be taken back.    *)
LEMMA RecoverableStep ==
    ASSUME IInv, Numbered, Numbered', Recoverable, [Next]_vars
    PROVE  Recoverable'
<1>. USE DEF IInv
<1>. DEFINE n == Len(frames)
<1>. SUFFICES ASSUME Regular'
              PROVE  /\ frames' /= <<>> => frames'[1].snap = committed'
                     /\ \A i \in 2 .. Len(frames') : Saved(i)'
  BY DEF Recoverable
<1>1. CASE frames' = <<>>
  <2>1. Len(frames') = 0
    BY <1>1, EmptySeq
  <2>. QED  BY <1>1, <2>1
<1>. SUFFICES ASSUME frames' /= <<>>
              PROVE  /\ frames'[1].snap = committed'
                     /\ \A i \in 2 .. Len(frames') : Saved(i)'
  BY <1>1
<1>2. /\ Regular
      /\ \A e \in Envs : EnterTx(e) => frames = <<>>
  BY StaysRegular
<1>3. CASE UNCHANGED <<frames, saves>> /\ (autocommit \/ UNCHANGED committed)
  <2>1. ~autocommit /\ frames /= <<>>
    BY <1>2, <1>3 DEF Regular
  <2>. QED  BY <1>2, <1>3, <2>1 DEF Recoverable, Saved
<1>4. ASSUME NEW e \in Envs, EnterTx(e)
      PROVE  Recoverable'
  <2>1. Push(e, "tx", depth[e]) /\ committed' = committed /\ frames = <<>>
    BY <1>2, <1>4 DEF EnterTx, server
  <2>2. view = committed
    BY <2>1 DEF AutocommitClean
  <2>3. n = 0
    BY <2>1, EmptySeq
  <2>4. Len(frames') = n + 1 /\ frames'[n + 1].snap = view
    BY <2>1, PushFrames
  <2>. QED  BY <2>1, <2>2, <2>3, <2>4 DEF Recoverable
<1>5. ASSUME NEW e \in Envs, EnterSavepoint(e)
      PROVE  Recoverable'
  <2>. DEFINE new == [name |-> depth[e], snap |-> view]
  <2>1. /\ Push(e, "sp", depth[e]) /\ committed' = committed /\ depth[e] /= 0
        /\ saves' = Append(saves, new) /\ new \in Save
    BY <1>5 DEF EnterSavepoint, Save, TypeOK
  <2>2. /\ n \in Nat /\ DOMAIN frames = 1 .. n /\ Len(frames') = n + 1 /\ DOMAIN frames' = 1 .. (n + 1)
        /\ \A i \in 1 .. n : frames'[i] = frames[i]
        /\ frames'[n + 1].env = e /\ frames'[n + 1].snap = view
    BY <2>1, PushFrames
  <2>3. \A i \in DOMAIN frames : frames[i].env = e
    BY <2>2 DEF Regular
  <2>4. depth[e] = n
    BY <2>3, DepthIsLen
  <2>5. new.name = n /\ new.snap = view
    BY <2>4
  <2>. HIDE DEF new
  <2>6. /\ Len(saves) \in Nat /\ DOMAIN saves = 1 .. Len(saves) /\ DOMAIN saves' = 1 .. (Len(saves) + 1)
        /\ \A k \in 1 .. Len(saves) : saves'[k] = saves[k]
        /\ saves'[Len(saves) + 1] = new
    BY <2>1, AppendProperties, LenProperties DEF TypeOK
  <2>7. frames /= <<>> /\ n >= 1
    BY <2>1, <2>2, <2>4, EmptySeq
  <2>8. frames'[1].snap = committed'
    BY <1>2, <2>1, <2>2, <2>7 DEF Recoverable
  <2>9. ASSUME NEW i \in 2 .. (n + 1)
        PROVE  Saved(i)'
    <3>1. CASE i = n + 1
      <4>1. PICK m \in DOMAIN saves' : m = Len(saves) + 1
        BY <2>6
      <4>2. saves'[m].name = i - 1 /\ saves'[m].snap = frames'[i].snap
        BY <2>2, <2>5, <2>6, <3>1, <4>1
      <4>3. \A l \in DOMAIN saves' : ~(l > m)
        BY <2>6, <4>1
      <4>. QED  BY <4>2, <4>3 DEF Saved
    <3>2. CASE i /= n + 1
      <4>1. i \in 2 .. n /\ frames'[i] = frames[i] /\ i - 1 < n
        BY <2>2, <3>2
      <4>2. PICK m \in DOMAIN saves :
              /\ saves[m].name = i - 1 /\ saves[m].snap = frames[i].snap
              /\ \A l \in DOMAIN saves : l > m => saves[l].name > i - 1
        BY <1>2, <4>1 DEF Recoverable, Saved
      <4>3. m \in DOMAIN saves' /\ saves'[m].name = i - 1 /\ saves'[m].snap = frames'[i].snap
        BY <2>6, <4>1, <4>2
      <4>4. ASSUME NEW l \in DOMAIN saves', l > m
            PROVE  saves'[l].name > i - 1
        <5>1. CASE l \in DOMAIN saves
          BY <2>6, <4>2, <4>4, <5>1
        <5>2. CASE l = Len(saves) + 1
          BY <2>2, <2>5, <2>6, <4>1, <5>2
        <5>. QED  BY <2>6, <5>1, <5>2
      <4>. QED  BY <4>3, <4>4 DEF Saved
    <3>. QED  BY <3>1, <3>2
  <2>. QED  BY <2>2, <2>8, <2>9 DEF Recoverable
<1>6. CASE Commit \/ CommitAborted \/ Rollback \/ SavepointGone
  <2>1. frames /= <<>> /\ Pop
    BY <1>6 DEF Commit, CommitAborted, Rollback, Undo, SavepointGone
  <2>2. Len(frames') = n - 1 /\ n \in Nat
    BY <2>1, PopFrames
  <2>3. Top.kind = "sp"
    <3>1. n = 1 => frames' = <<>>
      BY <2>1, <2>2, PopKeeps, EmptySeq
    <3>2. Top.kind /= "tx"
      BY <1>2, <2>1, <3>1, SavedFacts
    <3>. QED  BY <2>1, <3>2, TopFacts DEF Frame
  <2>4. Named(Top.sp) /= {}
    <3>1. Saved(n) /\ Top.sp = n - 1
      BY <1>2, <2>1, <2>3, SavedFacts
    <3>. QED  BY <3>1 DEF Saved, Named
  <2>. QED  BY <1>6, <2>3, <2>4 DEF Commit, CommitAborted, Rollback, SavepointGone
<1>7. CASE Release
  <2>1. PICK m \in DOMAIN saves : IsLatest(m, Top.sp) /\ saves' = SubSeq(saves, 1, m - 1)
    BY <1>7 DEF Release
  <2>2. frames /= <<>> /\ Top.kind = "sp" /\ Pop /\ committed' = committed
    BY <1>7 DEF Release
  <2>3. Recoverable'
    BY <1>2, <2>1, <2>2, PrefixRecoverable
  <2>. QED  BY <2>3 DEF Recoverable
<1>8. CASE RollbackTo
  <2>1. PICK m \in DOMAIN saves : IsLatest(m, Top.sp) /\ saves' = SubSeq(saves, 1, m)
    BY <1>8 DEF RollbackTo
  <2>2. frames /= <<>> /\ Top.kind = "sp" /\ Pop /\ committed' = committed
    BY <1>8 DEF RollbackTo
  <2>3. Recoverable'
    BY <1>2, <2>1, <2>2, PrefixRecoverable
  <2>. QED  BY <2>3 DEF Recoverable
<1>9. TxEnvs \subseteq Envs
  BY EnvAssumption
<1>10. \A k \in Keys, v \in Vals : Write(k, v) => UNCHANGED <<frames, saves>> /\ (autocommit \/ UNCHANGED committed)
  BY DEF Write
<1>. QED
  BY <1>3, <1>4, <1>5, <1>6, <1>7, <1>8, <1>9, <1>10
  DEF Next, vars, server, EnterRefused, Read, StatementFails, Raise, Catch, Recoverable
-----------------------------------------------------------------------------
(* Every step of the blocks of one environment is a step of AtomicBlocks.  *)

Snaps == [i \in DOMAIN frames |-> frames[i].snap]

(* The entry views of the open blocks, read off the frames.                *)
LEMMA SnapsFacts ==
    ASSUME TypeOK
    PROVE  /\ Snaps \in Seq(Store) /\ Len(Snaps) = Len(frames)
           /\ DOMAIN Snaps = 1 .. Len(frames) /\ Len(frames) \in Nat
           /\ \A i \in 1 .. Len(frames) : Snaps[i] = frames[i].snap
<1>1. Len(frames) \in Nat /\ DOMAIN frames = 1 .. Len(frames)
  BY LenProperties DEF TypeOK
<1>2. \A i \in 1 .. Len(frames) : frames[i] \in Frame
  BY LenProperties DEF TypeOK
<1>3. Snaps \in [1 .. Len(frames) -> Store]
  BY <1>1, <1>2 DEF Snaps, Frame
<1>4. Snaps \in Seq(Store)
  BY <1>1, <1>3, IsASeq
<1>5. DOMAIN Snaps = 1 .. Len(Snaps) /\ Len(Snaps) \in Nat
  BY <1>4, LenProperties
<1>6. Len(Snaps) = Len(frames)
  BY <1>1, <1>3, <1>5
<1>. QED  BY <1>1, <1>4, <1>5, <1>6 DEF Snaps

(* `__enter__` is EnterBlock as far as the entry views go.                 *)
LEMMA PushSnaps ==
    ASSUME TypeOK, NEW e \in Envs, NEW kind \in {"tx", "sp"}, Push(e, kind, depth[e])
    PROVE  Snaps' = Append(Snaps, view)
<1>. DEFINE n == Len(frames)
           t == Append(Snaps, view)
<1>1. /\ n \in Nat /\ DOMAIN frames' = 1 .. (n + 1)
      /\ \A i \in 1 .. n : frames'[i] = frames[i]
      /\ frames'[n + 1].snap = view
  BY PushFrames
<1>2. /\ Snaps \in Seq(Store) /\ Len(Snaps) = n
      /\ \A i \in 1 .. n : Snaps[i] = frames[i].snap
  BY SnapsFacts
<1>3. view \in Store
  BY DEF TypeOK
<1>4. t \in Seq(Store) /\ Len(t) = n + 1 /\ t[n + 1] = view /\ \A i \in 1 .. n : t[i] = Snaps[i]
  BY <1>2, <1>3, AppendProperties
<1>. HIDE DEF t
<1>5. t = [i \in 1 .. (n + 1) |-> t[i]]
  BY <1>4, LenProperties
<1>6. \A i \in 1 .. (n + 1) : t[i] = frames'[i].snap
  BY <1>1, <1>2, <1>4
<1>7. Snaps' = [i \in 1 .. (n + 1) |-> frames'[i].snap]
  BY <1>1 DEF Snaps
<1>8. Snaps' = t
  BY <1>5, <1>6, <1>7
<1>. QED  BY <1>8 DEF t

(* `__exit__` takes the entry view of the innermost block off.             *)
LEMMA PopSnaps ==
    ASSUME TypeOK, frames /= <<>>, Pop
    PROVE  /\ Snaps' = SubSeq(Snaps, 1, Len(Snaps) - 1)
           /\ Snaps /= <<>> /\ Snaps[Len(Snaps)] = Top.snap
<1>. DEFINE n == Len(frames)
           t == SubSeq(Snaps, 1, n - 1)
<1>1. /\ n \in Nat \ {0} /\ DOMAIN frames' = 1 .. (n - 1)
      /\ \A i \in 1 .. (n - 1) : frames'[i] = frames[i]
      /\ Top = frames[n]
  BY PopFrames
<1>2. /\ Snaps \in Seq(Store) /\ Len(Snaps) = n
      /\ \A i \in 1 .. n : Snaps[i] = frames[i].snap
  BY SnapsFacts
<1>3. n - 1 \in 0 .. n
  BY <1>1
<1>4. t \in Seq(Store) /\ Len(t) = n - 1 /\ \A i \in 1 .. (n - 1) : t[i] = Snaps[i]
  BY <1>2, <1>3, PrefixFacts
<1>. HIDE DEF t
<1>5. t = [i \in 1 .. (n - 1) |-> t[i]]
  BY <1>4, LenProperties
<1>6. \A i \in 1 .. (n - 1) : t[i] = frames'[i].snap
  BY <1>1, <1>2, <1>4
<1>7. Snaps' = [i \in 1 .. (n - 1) |-> frames'[i].snap]
  BY <1>1 DEF Snaps
<1>8. Snaps' = t
  BY <1>5, <1>6, <1>7
<1>9. Snaps /= <<>> /\ Snaps[n] = Top.snap
  BY <1>1, <1>2, EmptySeq
<1>. QED  BY <1>2, <1>8, <1>9 DEF t

(* While the blocks are regular, every step of env.py is a step of         *)
(* AtomicBlocks or changes nothing it sees.                                *)
LEMMA BlockStep ==
    ASSUME IInv, Numbered, Recoverable, Regular, [Next]_vars
    PROVE  [Blocks!NextBlocks]_(Blocks!avars)
<1>. USE DEF IInv
<1>1. CASE UNCHANGED <<committed, view, frames, exc>>
  BY <1>1 DEF Blocks!avars
<1>2. ASSUME NEW e \in Envs, EnterTx(e) \/ EnterSavepoint(e)
      PROVE  Blocks!EnterBlock
  <2>1. Snaps' = Append(Snaps, view) /\ ~exc /\ UNCHANGED <<committed, view, exc>>
    <3>1. CASE EnterTx(e)
      BY <3>1, PushSnaps DEF EnterTx, server
    <3>2. CASE EnterSavepoint(e)
      BY <3>2, PushSnaps DEF EnterSavepoint
    <3>. QED  BY <1>2, <3>1, <3>2
  <2>. QED  BY <2>1 DEF Blocks!EnterBlock, Snaps
<1>3. CASE Raise \/ StatementFails \/ \E e \in TxEnvs : EnterRefused(e)
  BY <1>3 DEF Raise, StatementFails, EnterRefused, server, Blocks!NextBlocks, Blocks!RaiseIn
<1>4. CASE Catch
  BY <1>4 DEF Catch, server, Blocks!NextBlocks, Blocks!CatchIn
<1>5. ASSUME NEW k \in Keys, NEW v \in Vals, Write(k, v)
      PROVE  Blocks!WriteCell(k, v)
  <2>1. Snaps' = Snaps /\ (Snaps /= <<>> <=> frames /= <<>>)
    <3>1. Len(Snaps) = Len(frames) /\ Snaps \in Seq(Store)
      BY SnapsFacts
    <3>2. (Snaps /= <<>>) <=> (frames /= <<>>)
      BY <3>1, EmptySeq DEF TypeOK
    <3>. QED  BY <1>5, <3>2 DEF Write, Snaps
  <2>2. autocommit <=> frames = <<>>
    BY DEF Regular, AutocommitClean
  <2>. QED  BY <1>5, <2>1, <2>2 DEF Write, Blocks!WriteCell, Blocks!InBlock, Snaps
<1>6. CASE Commit \/ Release
  <2>1. frames /= <<>> /\ Pop /\ ~exc /\ UNCHANGED <<view, exc>>
    BY <1>6 DEF Commit, Release
  <2>2. Snaps' = SubSeq(Snaps, 1, Len(Snaps) - 1) /\ Snaps /= <<>>
    BY <2>1, PopSnaps
  <2>3. Len(Snaps) = 1 <=> Top.kind = "tx"
    BY <2>1, SnapsFacts, SavedFacts
  <2>4. committed' = IF Len(Snaps) = 1 THEN view ELSE committed
    BY <1>6, <2>3 DEF Commit, Release
  <2>5. Blocks!KeepBlock
    BY <2>1, <2>2, <2>4 DEF Blocks!KeepBlock, Blocks!InBlock, Blocks!Outermost, Snaps
  <2>. QED  BY <2>5 DEF Blocks!NextBlocks
<1>7. CASE CommitAborted \/ Rollback \/ RollbackTo \/ SavepointGone
  <2>1. /\ frames /= <<>> /\ Pop /\ committed' = committed
        /\ exc' \in BOOLEAN /\ (exc => exc')
    BY <1>7 DEF CommitAborted, Rollback, RollbackTo, SavepointGone, Undo
  <2>2. Snaps' = SubSeq(Snaps, 1, Len(Snaps) - 1) /\ Snaps /= <<>> /\ Snaps[Len(Snaps)] = Top.snap
    BY <2>1, PopSnaps
  <2>3. view' = Top.snap
    <3>1. CASE CommitAborted \/ Rollback
      <4>1. view' = committed /\ Top.kind = "tx"
        BY <3>1 DEF CommitAborted, Rollback, Undo
      <4>. QED  BY <2>1, <4>1, SavedFacts DEF Top
    <3>2. CASE RollbackTo
      <4>1. PICK m \in DOMAIN saves : IsLatest(m, Top.sp) /\ view' = saves[m].snap
        BY <3>2 DEF RollbackTo
      <4>2. Top.kind = "sp"
        BY <3>2 DEF RollbackTo
      <4>. QED  BY <2>1, <4>1, <4>2, OwnSavepoint
    <3>3. CASE SavepointGone
      <4>1. Saved(Len(frames)) /\ Top.sp = Len(frames) - 1
        BY <2>1, <3>3, SavedFacts DEF SavepointGone
      <4>. QED  BY <3>3, <4>1 DEF SavepointGone, Saved, Named
    <3>. QED  BY <1>7, <3>1, <3>2, <3>3
  <2>4. PICK raised \in BOOLEAN : raised = exc'
    BY <2>1
  <2>5. Blocks!UndoBlock(raised)
    BY <2>1, <2>2, <2>3, <2>4 DEF Blocks!UndoBlock, Blocks!InBlock, Snaps
  <2>. QED  BY <2>5 DEF Blocks!NextBlocks
<1>8. TxEnvs \subseteq Envs
  BY EnvAssumption
<1>. QED
  BY <1>1, <1>2, <1>3, <1>4, <1>5, <1>6, <1>7, <1>8
  DEF Next, vars, server, Read, Blocks!NextBlocks

(* Without open blocks there is nothing to number or to take back.         *)
LEMMA InitNumbered == Init => Numbered /\ Recoverable
<1>. SUFFICES ASSUME Init PROVE Numbered /\ Recoverable
  OBVIOUS
<1>1. frames = <<>> /\ DOMAIN frames = {} /\ Len(frames) = 0
  BY EmptySeq DEF Init
<1>. QED  BY <1>1 DEF Numbered, Recoverable

(* While one environment opens the blocks, the savepoint that `__exit__`   *)
(* names is, in every reachable state, the one its own `__enter__` set,    *)
(* holding what the connection read then (`sp_{depth}`, env.py).           *)
THEOREM SavepointsMatch == Spec => [](IInv /\ Numbered /\ Recoverable)
<1>1. Init => IInv /\ Numbered /\ Recoverable
  BY InitIInv, InitNumbered
<1>2. IInv /\ Numbered /\ Recoverable /\ [Next]_vars => (IInv /\ Numbered /\ Recoverable)'
  BY StepIInv, NumberedStep, RecoverableStep
<1>. QED  BY <1>1, <1>2, PTL DEF Spec

(* As long as the open blocks all belong to one environment, every step of *)
(* the code is a step of AtomicBlocks or a stutter.                        *)
THEOREM AtomicWhileRegularHolds == Spec => AtomicWhileRegular
<1>1. IInv /\ Numbered /\ Recoverable /\ [Next]_vars
        => (Regular => [Blocks!NextBlocks]_(Blocks!avars))
  BY BlockStep
<1>. QED  BY <1>1, SavepointsMatch, PTL DEF Spec, AtomicWhileRegular

(* With one environment opening the blocks they are never mixed.           *)
OneOpener ==
    /\ \A i \in DOMAIN frames : frames[i].env \in TxEnvs
    /\ frames /= <<>> => ~autocommit

(* If a single environment opens blocks, the open blocks are all its own,  *)
(* inside a transaction.                                                   *)
LEMMA OneOpenerStep ==
    ASSUME NEW e \in Envs, TxEnvs = {e}, IInv, Numbered, OneOpener, [Next]_vars
    PROVE  OneOpener'
<1>. USE DEF IInv
<1>1. CASE UNCHANGED <<frames, autocommit>>
  BY <1>1 DEF OneOpener
<1>2. CASE EnterTx(e) \/ EnterSavepoint(e)
  <2>1. \E kind \in {"tx", "sp"} : Push(e, kind, depth[e])
    BY <1>2 DEF EnterTx, EnterSavepoint
  <2>2. /\ Len(frames) \in Nat /\ DOMAIN frames = 1 .. Len(frames)
        /\ DOMAIN frames' = 1 .. (Len(frames) + 1)
        /\ \A i \in 1 .. Len(frames) : frames'[i] = frames[i]
        /\ frames'[Len(frames) + 1].env = e
    BY <2>1, PushFrames
  <2>3. \A i \in DOMAIN frames' : frames'[i].env = e
    BY <2>2 DEF OneOpener
  <2>4. ~autocommit'
    BY <1>2 DEF EnterTx, EnterSavepoint
  <2>. QED  BY <2>3, <2>4 DEF OneOpener
<1>3. CASE frames /= <<>> /\ Pop
  <2>1. /\ Len(frames) \in Nat \ {0} /\ DOMAIN frames = 1 .. Len(frames)
        /\ Len(frames') = Len(frames) - 1 /\ DOMAIN frames' = 1 .. (Len(frames) - 1)
        /\ \A i \in 1 .. (Len(frames) - 1) : frames'[i] = frames[i]
        /\ Top = frames[Len(frames)]
    BY <1>3, PopFrames
  <2>2. \A i \in DOMAIN frames' : frames'[i].env \in TxEnvs
    BY <2>1 DEF OneOpener
  <2>3. frames' /= <<>> => ~autocommit'
    <3>1. SUFFICES ASSUME frames' /= <<>> PROVE ~autocommit'
      OBVIOUS
    <3>2. frames' \in Seq(Frame) /\ depth[Top.env] = Top.sp + 1
      BY <1>3, PopNests DEF Pop
    <3>3. OneEnv(Len(frames))
      BY <2>1 DEF OneOpener, OneEnv
    <3>4. Top.sp = Len(frames) - 1
      BY <2>1, <3>3 DEF Numbered
    <3>5. Len(frames') /= 0
      BY <3>1, <3>2, EmptySeq
    <3>6. Len(frames) \in Int
      BY <2>1
    <3>7. Len(frames') = Len(frames) - 1
      BY <2>1
    <3>8. depth[Top.env] /= 1
      BY <3>2, <3>4, <3>5, <3>6, <3>7
    <3>. QED  BY <1>3, <3>8 DEF OneOpener, Pop
  <2>. QED  BY <2>2, <2>3 DEF OneOpener
<1>. QED
  BY <1>1, <1>2, <1>3
  DEF Next, vars, server, EnterRefused, Read, Write, StatementFails, Raise, Catch,
      Commit, CommitAborted, Rollback, Undo, Release, RollbackTo, SavepointGone

(* When one environment opens all the blocks, transaction() implements     *)
(* AtomicBlocks.                                                           *)
THEOREM OneOpenerImplementsBlocks ==
    ASSUME NEW e \in Envs, TxEnvs = {e}
    PROVE  Spec => Blocks!SpecBlocks
<1>1. Init => OneOpener /\ Blocks!InitBlocks
  <2>. SUFFICES ASSUME Init PROVE OneOpener /\ Blocks!InitBlocks
    OBVIOUS
  <2>1. frames = <<>> /\ DOMAIN frames = {} /\ Len(frames) = 0 /\ TypeOK
    BY EmptySeq, InitIInv DEF Init, IInv
  <2>2. Snaps = <<>>
    BY <2>1, SnapsFacts, EmptySeq
  <2>. QED  BY <2>1, <2>2 DEF Init, OneOpener, Store, Snaps, Blocks!InitBlocks
<1>2. IInv /\ Numbered /\ OneOpener /\ [Next]_vars => OneOpener'
  BY OneOpenerStep
<1>3. IInv /\ Numbered /\ Recoverable /\ OneOpener /\ [Next]_vars => [Blocks!NextBlocks]_(Blocks!avars)
  <2>1. OneOpener => Regular
    BY DEF OneOpener, Regular
  <2>. QED  BY <2>1, BlockStep
<1>. QED  BY <1>1, <1>2, <1>3, SavepointsMatch, PTL DEF Spec, Blocks!SpecBlocks
=============================================================================
