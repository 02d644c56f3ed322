-------------------------- MODULE KeptListsProofs --------------------------
(* Theorems about the two lists that are kept from one session to the next: *)
(* the snapshots of the server, in their file, and the pending edits of    *)
(* the extension, in their draft.  They hold for any number of contexts,   *)
(* snapshots, labels and saves, and of targets, values, changes, undo      *)
(* steps, runs of the apply command and sessions.                          *)
EXTENDS Snapshots, PendingEdits, SequenceTheorems, FiniteSetTheorems, TLAPS

(* What the operators on sequences return that both components use.        *)
LEMMA PrefixOf ==
    ASSUME NEW S, NEW l \in Seq(S), NEW n \in 0 .. Len(l)
    PROVE  /\ SubSeq(l, 1, n) \in Seq(S) /\ Len(SubSeq(l, 1, n)) = n
           /\ \A i \in 1 .. n : SubSeq(l, 1, n)[i] = l[i]
<1>1. n \in Int /\ 1 \in Int /\ \A i \in 1 .. n : l[i] \in S
  OBVIOUS
<1> QED
  BY <1>1, SubSeqProperties

LEMMA RemoveAtOf ==
    ASSUME NEW S, NEW l \in Seq(S), NEW k \in DOMAIN l
    PROVE  /\ RemoveAt(l, k) \in Seq(S)
           /\ Len(RemoveAt(l, k)) = Len(l) - 1
           /\ \A i \in 1 .. Len(l) - 1 : RemoveAt(l, k)[i] = l[IF i < k THEN i ELSE i + 1]
<1>1. k \in 1 .. Len(l) /\ Len(l) \in Nat
  OBVIOUS
<1>2. /\ SubSeq(l, 1, k - 1) \in Seq(S)
      /\ Len(SubSeq(l, 1, k - 1)) = k - 1
      /\ \A i \in 1 .. k - 1 : SubSeq(l, 1, k - 1)[i] = l[i]
  <2>1. k - 1 \in 0 .. Len(l)
    BY <1>1
  <2> QED
    BY <2>1, PrefixOf
<1>3. /\ SubSeq(l, k + 1, Len(l)) \in Seq(S)
      /\ Len(SubSeq(l, k + 1, Len(l))) = Len(l) - k
      /\ \A i \in 1 .. Len(l) - k : SubSeq(l, k + 1, Len(l))[i] = l[k + i]
  <2>1. k + 1 \in Int /\ Len(l) \in Int /\ \A i \in k + 1 .. Len(l) : l[i] \in S
    BY <1>1
  <2> QED
    BY <1>1, <2>1, SubSeqProperties
<1> DEFINE before == SubSeq(l, 1, k - 1)  after == SubSeq(l, k + 1, Len(l))
<1>4. /\ before \o after \in Seq(S)
      /\ Len(before \o after) = Len(before) + Len(after)
      /\ \A i \in 1 .. Len(before) + Len(after) :
            (before \o after)[i] = IF i <= Len(before) THEN before[i] ELSE after[i - Len(before)]
  <2> HIDE DEF before, after
  <2> QED
    BY <1>2, <1>3, ConcatProperties DEF before, after
<1>5. ASSUME NEW i \in 1 .. Len(l) - 1
      PROVE  (before \o after)[i] = l[IF i < k THEN i ELSE i + 1]
  <2>1. i \in 1 .. Len(before) + Len(after)
    BY <1>1, <1>2, <1>3
  <2>2. CASE i < k
    BY <1>1, <1>2, <1>4, <2>1, <2>2
  <2>3. CASE ~(i < k)
    <3>1. i - (k - 1) \in 1 .. Len(l) - k /\ k + (i - (k - 1)) = i + 1 /\ ~(i <= k - 1)
      BY <1>1, <2>3
    <3> HIDE DEF before, after
    <3>2. (before \o after)[i] = after[i - (k - 1)]
      BY <1>2, <1>4, <2>1, <3>1 DEF before
    <3> QED
      BY <1>3, <2>3, <3>1, <3>2 DEF after
  <2> QED
    BY <2>2, <2>3
<1>6. Len(before) + Len(after) = Len(l) - 1
  <2>1. Len(before) = k - 1 /\ Len(after) = Len(l) - k
    BY <1>2, <1>3, Zenon
  <2> HIDE DEF before, after
  <2> QED
    BY <1>1, <2>1
<1>7. RemoveAt(l, k) = before \o after
  BY DEF RemoveAt
<1>8. \A i \in 1 .. Len(l) - 1 : (before \o after)[i] = l[IF i < k THEN i ELSE i + 1]
  BY <1>5
<1> HIDE DEF before, after
<1>9. before \o after \in Seq(S) /\ Len(before \o after) = Len(l) - 1
  BY <1>4, <1>6
<1> QED
  BY <1>7, <1>8, <1>9

LEMMA FrontOf ==
    ASSUME NEW S, NEW l \in Seq(S), l # <<>>
    PROVE  /\ Front(l) \in Seq(S) /\ Len(Front(l)) = Len(l) - 1
           /\ Last(l) \in S
<1>1. Len(l) \in Nat \ {0}
  BY EmptySeq
<1>2. Len(l) - 1 \in 0 .. Len(l)
  BY <1>1
<1>3. /\ SubSeq(l, 1, Len(l) - 1) \in Seq(S)
      /\ Len(SubSeq(l, 1, Len(l) - 1)) = Len(l) - 1
  BY <1>2, PrefixOf
<1>4. l[Len(l)] \in S
  BY <1>1, ElementOfSeq
<1> QED
  BY <1>1, <1>3, <1>4 DEF Front, Last

LEMMA AppendOf ==
    ASSUME NEW S, NEW l \in Seq(S), NEW e \in S
    PROVE  /\ Append(l, e) \in Seq(S) /\ Len(Append(l, e)) = Len(l) + 1
           /\ Append(l, e) # <<>> /\ Last(Append(l, e)) = e
BY AppendProperties DEF Last

----------------------------------------------------------------------------
(* The snapshots.                                                          *)

(* What holds of the save each context has under way.  The last list a     *)
(* context has queued is the list it has.                                  *)
SaveInv ==
    \A s \in Contexts :
        /\ queue[s] = <<>> => stage[s] = "idle"
        /\ stage[s] # "open" => handle[s] = "none"
        /\ s > newest => queue[s] = <<>>
        /\ queue[s] # <<>> => queue[s][Len(queue[s])] = list[s]

OthersSilent == \A s \in Contexts \ {newest} : queue[s] = <<>>

(* A save that nothing disturbs has the temporary file for itself.         *)
OwnTmp ==
    /\ stage[newest] = "open" => handle[newest] = "tmp" /\ tmp = Empty
    /\ stage[newest] = "written" => tmp = queue[newest][1]

(* And from then on, the store is what the running server has saved, until *)
(* another context saves as well.                                          *)
Undisturbed ==
    /\ alone \/ ~disturbed => OthersSilent /\ OwnTmp
    /\ FileIntact
    /\ SettledMeansSaved

IInv == TypeOK /\ SaveInv /\ Undisturbed

----------------------------------------------------------------------------
(* What a start keeps of a list is at most maxSnapshots of it, and all of  *)
(* a list that is no longer.                                               *)
LEMMA NewestOf ==
    ASSUME NEW l \in Lists
    PROVE  /\ Newest(l) \in Lists
           /\ Len(Newest(l)) <= MaxSnapshots
           /\ Len(l) <= MaxSnapshots => Newest(l) = l
<1> USE SnapshotsAssumption DEF Lists
<1>1. CASE Len(l) > MaxSnapshots
  <2>1. /\ Len(l) - MaxSnapshots + 1 \in Int /\ Len(l) \in Int
        /\ \A i \in Len(l) - MaxSnapshots + 1 .. Len(l) : l[i] \in Snapshot
    BY <1>1
  <2>2. /\ SubSeq(l, Len(l) - MaxSnapshots + 1, Len(l)) \in Seq(Snapshot)
        /\ Len(SubSeq(l, Len(l) - MaxSnapshots + 1, Len(l))) = MaxSnapshots
    BY <1>1, <2>1, SubSeqProperties
  <2> QED
    BY <1>1, <2>2 DEF Newest
<1>2. CASE ~(Len(l) > MaxSnapshots)
  BY <1>2 DEF Newest
<1> QED
  BY <1>1, <1>2

(* The store always reads as a list, of which a start keeps its share, or  *)
(* nothing if the read fails.                                              *)
LEMMA FoundOf ==
    ASSUME file \in Lists \cup {Absent, Empty, Torn}, NEW hasFailed \in BOOLEAN
    PROVE  Found(hasFailed) \in Lists /\ Len(Found(hasFailed)) <= MaxSnapshots
<1>1. Loaded \in Lists /\ Len(Loaded) <= MaxSnapshots
  <2>1. Stored \in Lists
    BY DEF Stored, Lists
  <2> QED
    BY <2>1, NewestOf DEF Loaded
<1>2. <<>> \in Lists /\ Len(<<>>) <= MaxSnapshots
  BY SnapshotsAssumption DEF Lists
<1> QED
  BY <1>1, <1>2 DEF Found

(* What the handlers make of the list is a list of snapshots within the    *)
(* limit.                                                                  *)
LEMMA AddedOf ==
    ASSUME NEW l \in Lists, NEW id \in Ids, NEW label \in Labels
    PROVE  LET k == Newest(Append(l, [id |-> id, label |-> label]))
           IN  k \in Lists /\ Len(k) <= MaxSnapshots
<1>1. Append(l, [id |-> id, label |-> label]) \in Lists
  BY DEF Lists, Snapshot
<1> QED
  BY <1>1, NewestOf

LEMMA ReplacedOf ==
    ASSUME NEW l \in Lists, NEW i \in DOMAIN l, NEW label \in Labels
    PROVE  /\ [l EXCEPT ![i].label = label] \in Lists
           /\ Len([l EXCEPT ![i].label = label]) = Len(l)
<1> DEFINE renamed == [l[i] EXCEPT !.label = label]
<1>1. l \in Seq(Snapshot) /\ i \in 1 .. Len(l)
  BY DEF Lists
<1>2. renamed \in Snapshot
  <2>1. l[i] \in Snapshot
    BY <1>1, ElementOfSeq
  <2> QED
    BY <2>1 DEF Snapshot
<1>3. [l EXCEPT ![i] = renamed] \in Seq(Snapshot) /\ Len([l EXCEPT ![i] = renamed]) = Len(l)
  BY <1>1, <1>2, ExceptSeq
<1>4. [l EXCEPT ![i].label = label] = [l EXCEPT ![i] = renamed]
  OBVIOUS
<1> QED
  BY <1>3, <1>4 DEF Lists

----------------------------------------------------------------------------
(* The initial states, and the start of a process.                         *)
LEMMA InitIInv == Init => IInv
<1> SUFFICES ASSUME Init PROVE IInv
  OBVIOUS
<1> USE SnapshotsAssumption DEF Contexts
<1>1. file \in Lists \cup {Absent} /\ file \notin {Empty, Torn}
  BY DEF Init, Lists, Snapshot
<1>2. \A f \in BOOLEAN : Found(f) \in Lists /\ Len(Found(f)) <= MaxSnapshots
  BY <1>1, FoundOf
<1>3. <<>> \in Lists /\ <<>> \in Seq(Lists) /\ Len(<<>>) = 0
  BY DEF Lists
<1>4. TypeOK
  <2>1. /\ newest \in Contexts
        /\ queue \in [Contexts -> Seq(Lists)]
        /\ stage \in [Contexts -> {"idle", "open", "written"}]
        /\ handle \in [Contexts -> {"none", "tmp", "file", "gone"}]
    BY <1>3 DEF Init
  <2>2. list \in [Contexts -> Lists] /\ \A s \in Contexts : Len(list[s]) <= MaxSnapshots
    BY <1>2, <1>3 DEF Init
  <2>3. failed \in [Contexts -> BOOLEAN] /\ alone \in BOOLEAN /\ disturbed \in BOOLEAN
    BY DEF Init
  <2>4. tmp \in Lists \cup {Absent, Empty, Torn} /\ file \in Lists \cup {Absent, Empty, Torn}
    BY <1>1 DEF Init
  <2> QED
    BY <2>1, <2>2, <2>3, <2>4 DEF TypeOK
<1>5. SaveInv
  BY DEF Init, SaveInv
<1>6. Undisturbed
  BY <1>1 DEF Init, Undisturbed, OthersSilent, OwnTmp, FileIntact, SettledMeansSaved, Found
<1> QED
  BY <1>4, <1>5, <1>6 DEF IInv

LEMMA CrashIInv == IInv /\ Crash => IInv'
<1> SUFFICES ASSUME IInv, Crash PROVE IInv'
  OBVIOUS
<1> USE SnapshotsAssumption DEF Contexts
<1>1. \A f \in BOOLEAN : Found(f) \in Lists /\ Len(Found(f)) <= MaxSnapshots
  BY FoundOf DEF IInv, TypeOK
<1>2. <<>> \in Lists /\ <<>> \in Seq(Lists) /\ Len(<<>>) = 0
  BY DEF Lists
<1>3. TypeOK'
  <2>1. /\ (newest \in Contexts)'
        /\ (queue \in [Contexts -> Seq(Lists)])'
        /\ (stage \in [Contexts -> {"idle", "open", "written"}])'
        /\ (handle \in [Contexts -> {"none", "tmp", "file", "gone"}])'
    BY <1>2 DEF Crash
  <2>2. (list \in [Contexts -> Lists] /\ \A s \in Contexts : Len(list[s]) <= MaxSnapshots)'
    BY <1>1, <1>2 DEF Crash
  <2>3. (failed \in [Contexts -> BOOLEAN] /\ alone \in BOOLEAN /\ disturbed \in BOOLEAN)'
    BY DEF Crash, IInv, TypeOK
  <2>4. (tmp \in Lists \cup {Absent, Empty, Torn} /\ file \in Lists \cup {Absent, Empty, Torn})'
    BY DEF Crash, IInv, TypeOK
  <2> QED
    BY <2>1, <2>2, <2>3, <2>4 DEF TypeOK
<1>4. SaveInv'
  BY DEF Crash, SaveInv
<1>5. Undisturbed'
  BY DEF Crash, IInv, Undisturbed, OthersSilent, OwnTmp, FileIntact, SettledMeansSaved, Found, Loaded,
         Stored
<1> QED
  BY <1>3, <1>4, <1>5 DEF IInv

(* A start beside saves that go on counts as disturbed.                    *)
LEMMA StartAgainIInv == IInv /\ StartAgain => IInv'
<1> SUFFICES ASSUME IInv, StartAgain PROVE IInv'
  OBVIOUS
<1> USE SnapshotsAssumption DEF Contexts
<1>1. \A f \in BOOLEAN : Found(f) \in Lists /\ Len(Found(f)) <= MaxSnapshots
  BY FoundOf DEF IInv, TypeOK
<1>a. PICK hasFailed \in BOOLEAN : /\ list' = [list EXCEPT ![newest'] = Found(hasFailed)]
                                  /\ failed' = [failed EXCEPT ![newest'] = hasFailed]
  BY DEF StartAgain
<1>b. Found(hasFailed) \in Lists /\ Len(Found(hasFailed)) <= MaxSnapshots
  BY <1>1
<1>2. TypeOK'
  BY <1>a, <1>b DEF StartAgain, IInv, TypeOK
<1>3. SaveInv'
  <2> SUFFICES ASSUME NEW s \in Contexts
               PROVE  /\ queue[s] = <<>> => stage[s] = "idle"
                      /\ stage[s] # "open" => handle[s] = "none"
                      /\ s > newest + 1 => queue[s] = <<>>
                      /\ queue[s] # <<>> => queue[s][Len(queue[s])] = list'[s]
    BY DEF SaveInv, StartAgain
  <2>1. s > newest => queue[s] = <<>>
    BY DEF IInv, SaveInv
  <2>2. s # newest + 1 => list'[s] = list[s]
    BY DEF StartAgain, IInv, TypeOK
  <2>3. newest \in Nat /\ s \in Nat
    BY DEF IInv, TypeOK
  <2>4. /\ queue[s] = <<>> => stage[s] = "idle"
        /\ stage[s] # "open" => handle[s] = "none"
        /\ queue[s] # <<>> => queue[s][Len(queue[s])] = list[s]
    BY DEF IInv, SaveInv
  <2>5. s > newest + 1 => queue[s] = <<>>
    BY <2>1, <2>3
  <2>6. queue[s] # <<>> => list'[s] = list[s]
    BY <2>1, <2>2, <2>3
  <2> QED
    BY <2>4, <2>5, <2>6
<1>4. SettledMeansSaved'
  <2>1. newest' \in Contexts /\ list'[newest'] = Found(hasFailed) /\ failed'[newest'] = hasFailed
    BY <1>a DEF StartAgain, IInv, TypeOK
  <2>2. Loaded' = Loaded
    BY DEF StartAgain, Loaded, Stored
  <2> QED
    BY <2>1, <2>2 DEF SettledMeansSaved, Found
<1>5. (FileIntact /\ (alone \/ ~disturbed => OthersSilent /\ OwnTmp))'
  BY DEF StartAgain, IInv, TypeOK, SaveInv, Undisturbed, OthersSilent, OwnTmp, FileIntact
<1> QED
  BY <1>2, <1>3, <1>4, <1>5 DEF IInv, Undisturbed

(* A change of the list of any context.                                    *)
LEMMA ChangesIInv ==
    ASSUME IInv, NEW s \in Contexts, NEW l \in Lists, Len(l) <= MaxSnapshots, Changes(s, l)
    PROVE  IInv'
<1> USE SnapshotsAssumption DEF Contexts
<1> DEFINE q == queue[s]
<1>1. q \in Seq(Lists)
  BY DEF IInv, TypeOK
<1>2. /\ Append(q, l) \in Seq(Lists) /\ Append(q, l) # <<>>
      /\ Append(q, l)[Len(Append(q, l))] = l
      /\ q # <<>> => Append(q, l)[1] = q[1]
  <2>1. q # <<>> => Len(q) >= 1
    BY <1>1
  <2> QED
    BY <1>1, <2>1, AppendProperties
<1>3. TypeOK'
  BY <1>2 DEF Changes, IInv, TypeOK
<1>4. SaveInv'
  <2> SUFFICES ASSUME NEW t \in Contexts
               PROVE  /\ queue'[t] = <<>> => stage[t] = "idle"
                      /\ stage[t] # "open" => handle[t] = "none"
                      /\ t > newest => queue'[t] = <<>>
                      /\ queue'[t] # <<>> => queue'[t][Len(queue'[t])] = list'[t]
    BY DEF SaveInv, Changes
  <2>1. t = s => queue'[t] = Append(q, l) /\ list'[t] = l /\ t <= newest
    BY DEF Changes, IInv, TypeOK
  <2>2. t # s => queue'[t] = queue[t] /\ list'[t] = list[t]
    BY DEF Changes, IInv, TypeOK
  <2>3. CASE t = s
    <3>1. queue'[t] # <<>> /\ queue'[t][Len(queue'[t])] = list'[t]
      BY <1>2, <2>1, <2>3
    <3>2. ~(t > newest)
      BY <2>1, <2>3 DEF IInv, TypeOK
    <3>3. stage[t] # "open" => handle[t] = "none"
      BY DEF IInv, SaveInv
    <3> QED
      BY <3>1, <3>2, <3>3
  <2>4. CASE t # s
    BY <2>2, <2>4 DEF IInv, SaveInv
  <2> QED
    BY <2>3, <2>4
<1>5. s < newest => ~alone' /\ disturbed'
  <2>1. s < newest => s # newest
    BY DEF IInv, TypeOK
  <2> QED
    BY <2>1, Zenon DEF Changes
<1>6. s = newest => Undisturbed'
  BY <1>2 DEF Changes, IInv, TypeOK, SaveInv, Undisturbed, OthersSilent, OwnTmp, FileIntact,
              SettledMeansSaved
<1>7. s < newest => Undisturbed'
  BY <1>5 DEF Undisturbed, FileIntact, SettledMeansSaved
<1> QED
  BY <1>3, <1>4, <1>6, <1>7 DEF IInv, TypeOK, Changes

----------------------------------------------------------------------------
(* The steps of a save.                                                    *)
LEMMA OpenTmpIInv == ASSUME IInv, NEW s \in Contexts, OpenTmp(s) PROVE IInv'
<1> USE SnapshotsAssumption DEF Contexts
<1>1. TypeOK'
  BY DEF OpenTmp, IInv, TypeOK
<1>2. SaveInv'
  BY DEF OpenTmp, IInv, TypeOK, SaveInv
<1>3. alone' \/ ~disturbed' => s = newest /\ OthersSilent'
  BY DEF OpenTmp, IInv, TypeOK, Undisturbed, OthersSilent
<1>4. FileIntact' /\ SettledMeansSaved'
  BY DEF OpenTmp, IInv, Undisturbed, FileIntact, SettledMeansSaved, Loaded, Stored
<1>5. s = newest => OwnTmp'
  BY DEF OpenTmp, IInv, TypeOK, OwnTmp
<1> QED
  BY <1>1, <1>2, <1>3, <1>4, <1>5 DEF IInv, Undisturbed

LEMMA HeadOf ==
    ASSUME IInv, NEW s \in Contexts, queue[s] # <<>>
    PROVE  /\ queue[s][1] \in Lists
           /\ Saves(s) = {queue[s][1]}
           /\ Len(queue[s]) >= 1
<1>1. queue[s] \in Seq(Lists)
  BY DEF IInv, TypeOK
<1>2. Len(queue[s]) >= 1
  BY <1>1
<1> QED
  BY <1>1, <1>2 DEF Saves

LEMMA WriteTmpIInv == ASSUME IInv, NEW s \in Contexts, WriteTmp(s) PROVE IInv'
<1> USE DEF Contexts, history
<1>1. queue[s] # <<>>
  BY DEF IInv, SaveInv, WriteTmp
<1> DEFINE l == queue[s][1]
<1>2. /\ l \in Lists
      /\ tmp' \in Lists \cup {Absent, Empty, Torn}
      /\ file' \in Lists \cup {Absent, Empty, Torn}
  BY <1>1, HeadOf DEF WriteTmp, Written, IInv, TypeOK
<1>3. TypeOK'
  BY <1>2 DEF WriteTmp, IInv, TypeOK
<1>4. SaveInv'
  BY DEF WriteTmp, IInv, TypeOK, SaveInv
<1>5. alone \/ ~disturbed => s = newest /\ OthersSilent'
  BY <1>1 DEF WriteTmp, IInv, Undisturbed, OthersSilent
<1>6. alone \/ ~disturbed => tmp' = l /\ file' = file
  BY <1>1, <1>5, HeadOf DEF WriteTmp, Written, IInv, Undisturbed, OwnTmp
<1>7. alone' \/ ~disturbed' => OwnTmp'
  BY <1>5, <1>6 DEF WriteTmp, OwnTmp, IInv, TypeOK
<1>8. FileIntact' /\ SettledMeansSaved'
  BY <1>6 DEF WriteTmp, IInv, Undisturbed, FileIntact, SettledMeansSaved, Loaded, Stored
<1> QED
  BY <1>3, <1>4, <1>5, <1>7, <1>8 DEF IInv, Undisturbed, WriteTmp

(* What the end of the save under way leaves queued.                       *)
LEMMA EndsOf ==
    ASSUME IInv, NEW s \in Contexts, queue[s] # <<>>
    PROVE  /\ Tail(queue[s]) \in Seq(Lists)
           /\ Tail(queue[s]) # <<>> => Tail(queue[s])[Len(Tail(queue[s]))] = list[s]
           /\ Tail(queue[s]) = <<>> => queue[s][1] = list[s]
<1>1. queue[s] \in Seq(Lists) /\ queue[s][Len(queue[s])] = list[s]
  BY DEF IInv, TypeOK, SaveInv
<1>2. /\ Tail(queue[s]) \in Seq(Lists) /\ Len(Tail(queue[s])) = Len(queue[s]) - 1
      /\ \A i \in 1 .. Len(Tail(queue[s])) : Tail(queue[s])[i] = queue[s][i + 1]
  BY <1>1, HeadTailProperties
<1>3. Tail(queue[s]) # <<>> => Len(Tail(queue[s])) >= 1
  BY <1>2
<1>4. Tail(queue[s]) = <<>> => Len(queue[s]) = 1
  <2>1. Len(queue[s]) \in Nat
    BY <1>1
  <2>2. Tail(queue[s]) = <<>> => Len(Tail(queue[s])) = 0
    <3>1. Len(<<>>) = 0
      OBVIOUS
    <3> QED
      BY <3>1, Zenon
  <2>3. Len(Tail(queue[s])) = Len(queue[s]) - 1
    BY <1>2
  <2> QED
    BY <2>1, <2>2, <2>3
<1> QED
  BY <1>1, <1>2, <1>3, <1>4

(* The rename of a save nothing has disturbed stores the list it was begun *)
(* for; it is the last step of the first such save.                        *)
LEMMA RenameStores ==
    ASSUME IInv, NEW s \in Contexts, Rename(s), ~disturbed'
    PROVE  s = newest /\ OthersSilent /\ file' = queue[s][1]
<1>1. queue[s] # <<>>
  BY DEF IInv, SaveInv, Rename
<1>2. alone \/ ~disturbed
  BY Zenon DEF Rename
<1>3. OthersSilent /\ OwnTmp
  BY <1>2, Zenon DEF IInv, Undisturbed
<1>4. s = newest
  BY <1>1, <1>3 DEF OthersSilent
<1> QED
  BY <1>3, <1>4 DEF OwnTmp, Rename

LEMMA RenameIInv == ASSUME IInv, NEW s \in Contexts, Rename(s) PROVE IInv'
<1> USE DEF Contexts, Ends
<1>1. queue[s] # <<>>
  BY DEF IInv, SaveInv, Rename
<1>2. handle' \in [Contexts -> {"none", "tmp", "file", "gone"}]
  BY DEF Rename, IInv, TypeOK
<1>3. TypeOK'
  <2>1. disturbed' \in BOOLEAN /\ failed' \in [Contexts -> BOOLEAN]
    BY DEF Rename, IInv, TypeOK
  <2>2. (/\ newest \in Contexts
         /\ list \in [Contexts -> Lists] /\ \A t \in Contexts : Len(list[t]) <= MaxSnapshots
         /\ stage \in [Contexts -> {"idle", "open", "written"}])'
    BY DEF Rename, IInv, TypeOK
  <2>3. queue' \in [Contexts -> Seq(Lists)]
    BY <1>1, EndsOf DEF Rename, IInv, TypeOK
  <2>4. (/\ tmp \in Lists \cup {Absent, Empty, Torn}
         /\ file \in Lists \cup {Absent, Empty, Torn}
         /\ alone \in BOOLEAN)'
    BY DEF Rename, IInv, TypeOK
  <2> QED
    BY <1>2, <2>1, <2>2, <2>3, <2>4 DEF TypeOK
<1>4. SaveInv'
  <2> SUFFICES ASSUME NEW t \in Contexts
               PROVE  /\ queue'[t] = <<>> => stage'[t] = "idle"
                      /\ stage'[t] # "open" => handle'[t] = "none"
                      /\ t > newest => queue'[t] = <<>>
                      /\ queue'[t] # <<>> => queue'[t][Len(queue'[t])] = list[t]
    BY DEF SaveInv, Rename
  <2>1. handle[t] = "none" => handle'[t] = "none"
    BY DEF Rename, IInv, TypeOK
  <2>2. CASE t = s
    <3>1. queue'[t] = Tail(queue[t]) /\ stage'[t] = "idle" /\ ~(t > newest)
      BY <1>1, <2>2 DEF Rename, IInv, TypeOK, SaveInv
    <3>2. handle[t] = "none"
      BY <2>2 DEF Rename, IInv, SaveInv
    <3> QED
      BY <1>1, <2>1, <2>2, <3>1, <3>2, EndsOf
  <2>3. CASE t # s
    <3>1. queue'[t] = queue[t] /\ stage'[t] = stage[t]
      BY <2>3 DEF Rename, IInv, TypeOK
    <3> QED
      BY <2>1, <3>1 DEF IInv, SaveInv
  <2> QED
    BY <2>2, <2>3
<1>5. s # newest => ~alone
  BY <1>1, Zenon DEF IInv, Undisturbed, OthersSilent
<1>6. alone' \/ ~disturbed' => s = newest /\ OthersSilent
  BY <1>1, <1>5, RenameStores, Zenon DEF Rename, IInv, Undisturbed, OthersSilent
<1>7. alone' \/ ~disturbed' => OthersSilent' /\ OwnTmp'
  BY <1>6 DEF OthersSilent, OwnTmp, Rename, IInv, TypeOK
<1>8. FileIntact'
  <2> SUFFICES ASSUME ~disturbed' PROVE file' \notin {Empty, Torn}
    BY DEF FileIntact
  <2>1. file' \in Lists
    BY <1>1, RenameStores, HeadOf
  <2> QED
    BY <2>1, SnapshotsAssumption DEF Lists, Snapshot
<1>9. SettledMeansSaved'
  <2> SUFFICES ASSUME ~disturbed', queue'[newest] = <<>> PROVE Loaded' = list[newest]
    BY DEF SettledMeansSaved, Rename
  <2>1. s = newest /\ file' = queue[s][1] /\ file' \in Lists
    BY <1>1, RenameStores, HeadOf
  <2>2. Tail(queue[s]) = <<>>
    BY <2>1 DEF Rename, IInv, TypeOK
  <2>3. file' = list[newest]
    BY <1>1, <2>1, <2>2, EndsOf
  <2>4. file' \notin {Absent, Empty, Torn}
    BY <2>1, SnapshotsAssumption DEF Lists, Snapshot
  <2>5. Loaded' = Newest(file')
    BY <2>4 DEF Loaded, Stored
  <2>6. Len(list[newest]) <= MaxSnapshots
    BY DEF IInv, TypeOK
  <2> QED
    BY <2>1, <2>3, <2>5, <2>6, NewestOf
<1> QED
  BY <1>3, <1>4, <1>7, <1>8, <1>9 DEF IInv, Undisturbed

LEMMA SaveFailsIInv == ASSUME IInv, NEW s \in Contexts, SaveFails(s) PROVE IInv'
<1> USE DEF Contexts, Ends, history
<1>1. queue[s] # <<>>
  BY DEF SaveFails
<1>2. TypeOK'
  BY <1>1, EndsOf DEF SaveFails, IInv, TypeOK
<1>3. SaveInv'
  <2> SUFFICES ASSUME NEW t \in Contexts
               PROVE  /\ queue'[t] = <<>> => stage'[t] = "idle"
                      /\ stage'[t] # "open" => handle'[t] = "none"
                      /\ t > newest => queue'[t] = <<>>
                      /\ queue'[t] # <<>> => queue'[t][Len(queue'[t])] = list[t]
    BY DEF SaveInv, SaveFails
  <2>1. CASE t = s
    <3>1. /\ queue'[t] = Tail(queue[t]) /\ stage'[t] = "idle"
          /\ handle'[t] = "none" /\ ~(t > newest)
      BY <1>1, <2>1 DEF SaveFails, IInv, TypeOK, SaveInv
    <3> QED
      BY <1>1, <2>1, <3>1, EndsOf
  <2>2. CASE t # s
    <3>1. queue'[t] = queue[t] /\ stage'[t] = stage[t] /\ handle'[t] = handle[t]
      BY <2>2 DEF SaveFails, IInv, TypeOK
    <3> QED
      BY <3>1 DEF IInv, SaveInv
  <2> QED
    BY <2>1, <2>2
<1>4. alone \/ ~disturbed => s = newest /\ OthersSilent
  BY <1>1, Zenon DEF IInv, Undisturbed, OthersSilent
<1>5. alone \/ ~disturbed => OthersSilent' /\ OwnTmp'
  BY <1>4 DEF OthersSilent, OwnTmp, SaveFails, IInv, TypeOK
<1>6. FileIntact'
  BY DEF SaveFails, IInv, Undisturbed, FileIntact
<1>7. SettledMeansSaved'
  BY <1>4 DEF SaveFails, SettledMeansSaved, IInv, TypeOK
<1> QED
  BY <1>2, <1>3, <1>5, <1>6, <1>7, Zenon DEF IInv, Undisturbed, SaveFails

----------------------------------------------------------------------------
(* The handlers change the list within the limit.                          *)
LEMMA HandlersIInv ==
    ASSUME IInv, NEW s \in Contexts,
           \/ AddSnapshot(s) \/ RemoveSnapshot(s) \/ ReplaceSnapshot(s) \/ ClearSnapshots(s)
    PROVE  \E l \in Lists : Len(l) <= MaxSnapshots /\ Changes(s, l)
<1>1. list[s] \in Lists /\ Len(list[s]) <= MaxSnapshots
  BY DEF IInv, TypeOK
<1>2. CASE AddSnapshot(s)
  <2>1. PICK id \in Ids \ InUse, label \in Labels :
            Changes(s, Newest(Append(list[s], [id |-> id, label |-> label])))
    BY <1>2 DEF AddSnapshot
  <2> QED
    BY <1>1, <2>1, AddedOf
<1>3. CASE RemoveSnapshot(s)
  <2>1. PICK i \in DOMAIN list[s] : Changes(s, RemoveAt(list[s], i))
    BY <1>3 DEF RemoveSnapshot
  <2>2. RemoveAt(list[s], i) \in Lists /\ Len(RemoveAt(list[s], i)) = Len(list[s]) - 1
    BY <1>1, RemoveAtOf DEF Lists
  <2>3. /\ Len(list[s]) \in Nat /\ Len(RemoveAt(list[s], i)) \in Nat
        /\ MaxSnapshots \in Nat
    BY <1>1, <2>2, SnapshotsAssumption DEF Lists
  <2>4. Len(RemoveAt(list[s], i)) <= MaxSnapshots
    BY <1>1, <2>2, <2>3
  <2> QED
    BY <2>1, <2>2, <2>4
<1>4. CASE ReplaceSnapshot(s)
  <2>1. PICK i \in DOMAIN list[s], label \in Labels :
            Changes(s, [list[s] EXCEPT ![i].label = label])
    BY <1>4 DEF ReplaceSnapshot
  <2>2. /\ [list[s] EXCEPT ![i].label = label] \in Lists
        /\ Len([list[s] EXCEPT ![i].label = label]) = Len(list[s])
    BY <1>1, ReplacedOf
  <2> QED
    BY <1>1, <2>1, <2>2
<1>5. CASE ClearSnapshots(s)
  <2>1. <<>> \in Lists /\ Len(<<>>) <= MaxSnapshots
    BY SnapshotsAssumption DEF Lists
  <2> QED
    BY <1>5, <2>1 DEF ClearSnapshots
<1> QED
  BY <1>2, <1>3, <1>4, <1>5

LEMMA StutterIInv == IInv /\ UNCHANGED vars => IInv'
BY DEF vars, context, history, IInv, TypeOK, SaveInv, Undisturbed, OthersSilent, OwnTmp,
       FileIntact, SettledMeansSaved, Loaded, Stored

LEMMA StepIInv == IInv /\ [Next]_vars => IInv'
<1> SUFFICES ASSUME IInv, [Next]_vars PROVE IInv'
  OBVIOUS
<1>1. CASE Crash
  BY <1>1, CrashIInv
<1>2. CASE StartAgain
  BY <1>2, StartAgainIInv
<1>3. ASSUME NEW s \in Contexts,
             \/ AddSnapshot(s) \/ RemoveSnapshot(s) \/ ReplaceSnapshot(s) \/ ClearSnapshots(s)
      PROVE  IInv'
  BY <1>3, HandlersIInv, ChangesIInv
<1>4. ASSUME NEW s \in Contexts, OpenTmp(s) PROVE IInv'
  BY <1>4, OpenTmpIInv
<1>5. ASSUME NEW s \in Contexts, WriteTmp(s) PROVE IInv'
  BY <1>5, WriteTmpIInv
<1>6. ASSUME NEW s \in Contexts, Rename(s) PROVE IInv'
  BY <1>6, RenameIInv
<1>7. ASSUME NEW s \in Contexts, SaveFails(s) PROVE IInv'
  BY <1>7, SaveFailsIInv
<1>8. CASE UNCHANGED vars
  BY <1>8, StutterIInv
<1> QED
  BY <1>1, <1>2, <1>3, <1>4, <1>5, <1>6, <1>7, <1>8 DEF Next

(* Every reachable state satisfies the invariant.                          *)
LEMMA Invariance == Spec => []IInv
BY InitIInv, StepIInv, PTL DEF Spec

(* The variables have their types: no list of any context is longer than   *)
(* maxSnapshots, whatever the store held at first.                         *)
THEOREM TypeCorrect == Spec => []TypeOK
<1>1. IInv => TypeOK
  BY DEF IInv
<1> QED
  BY <1>1, Invariance, PTL

(* The store is never half-written, whatever step the process dies at,     *)
(* while no two contexts of it save (SnapshotStore.save, its temporary     *)
(* file and its rename).                                                   *)
THEOREM StoreIntact == Spec => []FileIntact
<1>1. IInv => FileIntact
  BY DEF IInv, Undisturbed
<1> QED
  BY <1>1, Invariance, PTL

(* Once the chain of the running server has settled, and its last use of   *)
(* the store has not failed, a start that can read it gives its list back  *)
(* (snapshotPersistenceSettled).                                           *)
THEOREM Settled == Spec => []SettledMeansSaved
<1>1. IInv => SettledMeansSaved
  BY DEF IInv, Undisturbed
<1> QED
  BY <1>1, Invariance, PTL

----------------------------------------------------------------------------
(* The refinement: what the server promises of its list.                   *)
LEMMA InitDurable == Init => Durable!Init
BY SnapshotsAssumption DEF Init, Durable!Init, Durable!Found, Found, Loaded, Contexts

(* A start, of a process or in one, continues from the store if it can be  *)
(* read.                                                                   *)
LEMMA StartsDurable ==
    IInv /\ (Crash \/ StartAgain) => Durable!Start
<1> SUFFICES ASSUME IInv, Crash \/ StartAgain PROVE Durable!Start
  OBVIOUS
<1> USE DEF Contexts, Durable!Start, Durable!Found, Found
<1>1. CASE Crash
  BY <1>1, SnapshotsAssumption DEF Crash, Loaded, Stored
<1>2. CASE StartAgain
  BY <1>2 DEF StartAgain, IInv, TypeOK, SaveInv, Loaded, Stored
<1> QED
  BY <1>1, <1>2

LEMMA ChangesDurable ==
    ASSUME IInv, NEW s \in Contexts, NEW l \in Lists, Changes(s, l), ~disturbed'
    PROVE  Durable!Change
<1> USE DEF Contexts
<1>1. s = newest
  <2>1. ~(s < newest) /\ s <= newest
    BY Zenon DEF Changes
  <2> QED
    BY <2>1 DEF IInv, TypeOK
<1>2. /\ list'[newest'] = l /\ queue'[newest'] = Append(queue[newest], l)
      /\ UNCHANGED <<file, newest, failed>>
  BY <1>1 DEF Changes, IInv, TypeOK
<1> QED
  BY <1>2 DEF Durable!Change, Stored

LEMMA SavesDurable ==
    ASSUME IInv, NEW s \in Contexts, ~disturbed'
    PROVE  /\ OpenTmp(s) \/ WriteTmp(s) => UNCHANGED durable
           /\ Rename(s) => Durable!Store
           /\ SaveFails(s) => Durable!GiveUp
<1> USE DEF Contexts, history, durable
<1>1. ASSUME OpenTmp(s) PROVE UNCHANGED durable
  BY <1>1 DEF OpenTmp, Stored
<1>2. ASSUME WriteTmp(s) PROVE UNCHANGED durable
  <2>1. queue[s] # <<>> /\ ~disturbed
    BY <1>2 DEF WriteTmp, IInv, SaveInv
  <2>2. s = newest /\ handle[s] = "tmp"
    BY <1>2, <2>1 DEF WriteTmp, IInv, Undisturbed, OthersSilent, OwnTmp
  <2> QED
    BY <1>2, <2>2 DEF WriteTmp, Stored
<1>3. ASSUME Rename(s) PROVE Durable!Store
  <2>1. queue[s] # <<>>
    BY <1>3 DEF IInv, SaveInv, Rename
  <2>2. s = newest /\ file' = queue[s][1] /\ queue[s][1] \in Lists
    BY <1>3, <2>1, RenameStores, HeadOf
  <2>3. Stored' = Head(queue[newest])
    <3>1. file' \notin {Absent, Empty, Torn}
      BY <2>2, SnapshotsAssumption DEF Lists, Snapshot
    <3> QED
      BY <2>2, <3>1 DEF Stored, IInv, TypeOK
  <2>4. /\ queue'[newest'] = Tail(queue[newest]) /\ list'[newest'] = list[newest]
        /\ failed'[newest'] = FALSE
    BY <1>3, <2>2 DEF Rename, Ends, IInv, TypeOK
  <2> QED
    BY <2>1, <2>2, <2>3, <2>4 DEF Durable!Store
<1>4. ASSUME SaveFails(s) PROVE Durable!GiveUp
  <2>1. queue[s] # <<>> /\ ~disturbed
    BY <1>4 DEF SaveFails
  <2>2. s = newest
    BY <2>1 DEF IInv, Undisturbed, OthersSilent
  <2>3. /\ queue'[newest'] = Tail(queue[newest]) /\ failed'[newest'] = TRUE
        /\ UNCHANGED <<newest, list, file>>
    BY <1>4, <2>2 DEF SaveFails, Ends, IInv, TypeOK
  <2> QED
    BY <2>1, <2>2, <2>3 DEF Durable!GiveUp, Stored
<1> QED
  BY <1>1, <1>2, <1>3, <1>4

LEMMA StepDurable ==
    IInv /\ [Next]_vars
      => [Durable!Next \/ disturbed']_durable
<1> SUFFICES ASSUME IInv, [Next]_vars, ~disturbed'
             PROVE  Durable!Next \/ UNCHANGED durable
  OBVIOUS
<1>1. CASE Crash \/ StartAgain
  BY <1>1, StartsDurable DEF Durable!Next
<1>2. ASSUME NEW s \in Contexts,
             \/ AddSnapshot(s) \/ RemoveSnapshot(s) \/ ReplaceSnapshot(s) \/ ClearSnapshots(s)
      PROVE  Durable!Next
  BY <1>2, HandlersIInv, ChangesDurable DEF Durable!Next
<1>3. ASSUME NEW s \in Contexts, OpenTmp(s) \/ WriteTmp(s) \/ Rename(s) \/ SaveFails(s)
      PROVE  Durable!Next \/ UNCHANGED durable
  BY <1>3, SavesDurable DEF Durable!Next
<1>4. CASE UNCHANGED vars
  BY <1>4 DEF vars, context, durable, Stored
<1> QED
  BY <1>1, <1>2, <1>3, <1>4 DEF Next

(* While no two contexts of the process save, the store promises what      *)
(* DurableList does: it holds a list the running server has had, what is   *)
(* pending follows it in the order of the changes, and a start gives back  *)
(* what is stored if it can be read (_persistSnapshots,                    *)
(* loadPersistedSnapshots).                                                *)
THEOREM RefinesDurableList == Spec => DurableUnlessDisturbed
BY InitDurable, Invariance, StepDurable, PTL DEF Spec, DurableUnlessDisturbed

----------------------------------------------------------------------------
(* The pending edits.                                                      *)

(* A list in which no cell has two changes.  The kind of a change is that  *)
(* of its target, which is why addCellChange() finds the one there is.     *)
Sound ==
    {l \in Seq(Change) :
        \A i \in DOMAIN l :
            /\ l[i].kind = Kind[l[i].target]
            /\ l[i].kind = "cell" =>
                  \A j \in DOMAIN l : l[j].target = l[i].target => j = i}

(* Every list that can come back is sound: by undo or redo, or as a draft. *)
ListsSound ==
    /\ changes \in Sound /\ draft \in Sound /\ offered \in Sound
    /\ undoStack \in Seq(Sound) /\ redoStack \in Seq(Sound)

(* undo() and redo() do not look at the length of the stack they push to:  *)
(* what bounds it is that a snapshot only goes from one to the other.      *)
HistoryBounded == Len(undoStack) + Len(redoStack) <= MaxHistory

FlagsTyped ==
    /\ nextId \in 1 .. MaxIds + 1 /\ timer \in BOOLEAN /\ saved \in BOOLEAN
    /\ offer \in {"due", "asked", "done"}
    /\ applying \in 0..MaxApplies /\ session \in 1..MaxSessions

EditsInv == ListsSound /\ HistoryBounded /\ FlagsTyped /\ DraftIsCurrent

(* What tracking and removing make of a sound list.                        *)
LEMMA SoundElement ==
    ASSUME NEW l \in Sound
    PROVE  /\ l \in Seq(Change) /\ Len(l) \in Nat /\ DOMAIN l = 1 .. Len(l)
           /\ \A i \in 1 .. Len(l) : l[i] \in Change /\ l[i].kind = Kind[l[i].target]
           /\ \A i, j \in 1 .. Len(l) :
                 l[i].kind = "cell" /\ l[j].target = l[i].target => j = i
<1>1. l \in Seq(Change)
  BY DEF Sound
<1>2. /\ Len(l) \in Nat /\ DOMAIN l = 1 .. Len(l)
      /\ \A i \in 1 .. Len(l) : l[i] \in Change
  BY <1>1, LenProperties, ElementOfSeq
<1> QED
  BY <1>1, <1>2 DEF Sound

LEMMA EmptySound == <<>> \in Sound /\ <<>> \in Seq(Sound)
BY DEF Sound

LEMMA AppendSound ==
    ASSUME ListsSound, FlagsTyped, NEW t \in Targets, NEW v \in Values[t],
           nextId <= MaxIds, Same(t) = {}
    PROVE  Append(changes, NewChange(t, v)) \in Sound
<1> DEFINE c == NewChange(t, v)  l == Append(changes, c)  n == Len(changes)
<1>1. c \in Change /\ c.target = t /\ c.kind = Kind[t]
  BY EditsAssumption DEF NewChange, Change, FlagsTyped
<1>2. /\ changes \in Seq(Change) /\ n \in Nat /\ DOMAIN changes = 1 .. n
      /\ \A i \in 1 .. n : changes[i].kind = Kind[changes[i].target]
      /\ \A i, j \in 1 .. n :
            changes[i].kind = "cell" /\ changes[j].target = changes[i].target => j = i
  BY SoundElement DEF ListsSound
<1>3. \A i \in 1 .. n : Kind[t] = "cell" => changes[i].target # t
  BY <1>2 DEF Same
<1> HIDE DEF c
<1>4. /\ l \in Seq(Change) /\ DOMAIN l = 1 .. n + 1
      /\ l[n + 1] = c /\ \A i \in 1 .. n : l[i] = changes[i]
  BY <1>1, <1>2, AppendProperties
<1> HIDE DEF l, n
<1>5. ASSUME NEW i \in 1 .. n + 1
      PROVE  /\ l[i].kind = Kind[l[i].target]
             /\ l[i].kind = "cell" =>
                   \A j \in 1 .. n + 1 : l[j].target = l[i].target => j = i
  <2>1. CASE i = n + 1
    BY <1>1, <1>2, <1>3, <1>4, <2>1
  <2>2. CASE i \in 1 .. n
    BY <1>1, <1>2, <1>3, <1>4, <2>2
  <2> QED
    BY <1>2, <2>1, <2>2
<1>6. l \in Sound
  BY <1>4, <1>5 DEF Sound
<1> QED
  BY <1>6 DEF l, c

LEMMA RevaluedSound ==
    ASSUME ListsSound, NEW t \in Targets, NEW v \in Values[t]
    PROVE  [i \in DOMAIN changes |->
               IF i \in Same(t) THEN [changes[i] EXCEPT !.value = v] ELSE changes[i]] \in Sound
<1> DEFINE l == [i \in DOMAIN changes |->
                    IF i \in Same(t) THEN [changes[i] EXCEPT !.value = v] ELSE changes[i]]
           n == Len(changes)
<1>1. /\ changes \in Seq(Change) /\ n \in Nat /\ DOMAIN changes = 1 .. n
      /\ \A i \in 1 .. n : changes[i] \in Change /\ changes[i].kind = Kind[changes[i].target]
      /\ \A i, j \in 1 .. n :
            changes[i].kind = "cell" /\ changes[j].target = changes[i].target => j = i
  BY SoundElement DEF ListsSound
<1>2. ASSUME NEW i \in 1 .. n
      PROVE  /\ l[i] \in Change
             /\ l[i].kind = changes[i].kind /\ l[i].target = changes[i].target
  <2>1. [changes[i] EXCEPT !.value = v] \in Change
    <3>1. v \in UNION {Values[u] : u \in Targets}
      OBVIOUS
    <3> QED
      BY <1>1, <3>1 DEF Change
  <2>2. /\ [changes[i] EXCEPT !.value = v].kind = changes[i].kind
        /\ [changes[i] EXCEPT !.value = v].target = changes[i].target
    BY <1>1 DEF Change
  <2> QED
    BY <1>1, <2>1, <2>2
<1>3. DOMAIN l = 1 .. n
  BY <1>1
<1> HIDE DEF l, n
<1>4. l \in Seq(Change)
  <2>1. l = [i \in 1 .. n |-> l[i]]
    BY <1>1, <1>3 DEF l
  <2> QED
    BY <1>1, <1>2, <2>1, IsASeq
<1>5. l \in Sound
  BY <1>1, <1>2, <1>3, <1>4 DEF Sound
<1> QED
  BY <1>5 DEF l

LEMMA RemoveSound ==
    ASSUME NEW l \in Sound, NEW k \in DOMAIN l
    PROVE  RemoveAt(l, k) \in Sound
<1> DEFINE r == RemoveAt(l, k)  old(i) == IF i < k THEN i ELSE i + 1
<1>1. /\ l \in Seq(Change) /\ Len(l) \in Nat /\ k \in 1 .. Len(l)
      /\ \A i \in 1 .. Len(l) : l[i].kind = Kind[l[i].target]
      /\ \A i, j \in 1 .. Len(l) :
            l[i].kind = "cell" /\ l[j].target = l[i].target => j = i
  BY SoundElement
<1>2. /\ r \in Seq(Change) /\ Len(r) = Len(l) - 1
      /\ \A i \in 1 .. Len(l) - 1 : r[i] = l[old(i)]
  BY <1>1, RemoveAtOf
<1>3. /\ \A i \in 1 .. Len(l) - 1 : old(i) \in 1 .. Len(l)
      /\ \A i, j \in 1 .. Len(l) - 1 : old(i) = old(j) => i = j
  BY <1>1
<1> HIDE DEF r, old
<1>4. DOMAIN r = 1 .. Len(l) - 1
  BY <1>2
<1>5. ASSUME NEW i \in 1 .. Len(l) - 1
      PROVE  /\ r[i].kind = Kind[r[i].target]
             /\ r[i].kind = "cell" =>
                   \A j \in 1 .. Len(l) - 1 : r[j].target = r[i].target => j = i
  BY <1>1, <1>2, <1>3
<1>6. r \in Sound
  BY <1>2, <1>4, <1>5 DEF Sound
<1> QED
  BY <1>6 DEF r

(* Every snapshot, of either stack, is a list there once was.              *)
LEMMA StacksTyped ==
    ASSUME ListsSound
    PROVE  /\ changes \in Sound /\ undoStack \in Seq(Sound) /\ redoStack \in Seq(Sound)
           /\ Len(undoStack) \in Nat /\ Len(redoStack) \in Nat
BY LenProperties DEF ListsSound

LEMMA SaveUndoStateOf ==
    ASSUME ListsSound, SaveUndoState
    PROVE  /\ undoStack' \in Seq(Sound) /\ redoStack' \in Seq(Sound)
           /\ HistoryBounded' /\ Recoverable(changes, undoStack')
<1>1. /\ undoStack' \in Seq(Sound) /\ Len(undoStack') = Len(undoStack) + 1
      /\ Recoverable(changes, undoStack')
  BY StacksTyped, AppendOf DEF SaveUndoState, Recoverable
<1>2. redoStack' = <<>> /\ Len(<<>>) = 0 /\ Len(undoStack) < MaxHistory
  BY DEF SaveUndoState
<1>3. HistoryBounded'
  BY <1>1, <1>2, StacksTyped, EditsAssumption DEF HistoryBounded
<1> QED
  BY <1>1, <1>2, <1>3, EmptySound

(* undo() and redo() move one snapshot from a stack to the other.          *)
LEMMA MovesOf ==
    ASSUME NEW from \in Seq(Sound), NEW to \in Seq(Sound), NEW l \in Sound, from # <<>>
    PROVE  /\ Last(from) \in Sound
           /\ Front(from) \in Seq(Sound) /\ Append(to, l) \in Seq(Sound)
           /\ Len(Front(from)) + Len(Append(to, l)) = Len(from) + Len(to)
           /\ Recoverable(l, Append(to, l))
<1>1. /\ Last(from) \in Sound
      /\ Front(from) \in Seq(Sound) /\ Len(Front(from)) = Len(from) - 1
  BY FrontOf
<1>2. /\ Append(to, l) \in Seq(Sound) /\ Len(Append(to, l)) = Len(to) + 1
      /\ Recoverable(l, Append(to, l))
  BY AppendOf DEF Recoverable
<1>3. Len(from) \in Nat /\ Len(to) \in Nat
  BY LenProperties
<1> QED
  BY <1>1, <1>2, <1>3

----------------------------------------------------------------------------
(* The invariant holds at first, and every operation keeps it.             *)
LEMMA InitEdits == EditsInit => EditsInv
<1> SUFFICES ASSUME EditsInit PROVE EditsInv
  OBVIOUS
<1> USE DEF EditsInit
<1>1. ListsSound
  BY EmptySound DEF ListsSound
<1>2. HistoryBounded
  <2>1. Len(<<>>) = 0
    OBVIOUS
  <2> QED
    BY <2>1, EditsAssumption DEF HistoryBounded
<1>3. FlagsTyped
  <2>1. 1 \in 1 .. MaxIds + 1 /\ 1 \in 1..MaxSessions /\ 0 \in 0..MaxApplies
    BY EditsAssumption
  <2> QED
    BY <2>1, Zenon DEF FlagsTyped
<1>4. DraftIsCurrent
  BY Zenon DEF DraftIsCurrent
<1> QED
  BY <1>1, <1>2, <1>3, <1>4 DEF EditsInv

LEMMA TrackEdits ==
    ASSUME EditsInv, NEW t \in Targets, NEW v \in Values[t], Track(t, v)
    PROVE  EditsInv'
<1>1. ListsSound /\ FlagsTyped
  BY DEF EditsInv
<1>2. changes' \in Sound
  BY <1>1, AppendSound, RevaluedSound DEF Track
<1>3. undoStack' \in Seq(Sound) /\ redoStack' \in Seq(Sound) /\ HistoryBounded'
  BY <1>1, SaveUndoStateOf DEF Track
<1>4. ListsSound'
  BY <1>1, <1>2, <1>3 DEF Track, ListsSound, offering
<1>5. FlagsTyped'
  BY <1>1, EditsAssumption DEF Track, Fires, FlagsTyped, offering
<1>6. DraftIsCurrent'
  BY DEF Track, Fires, DraftIsCurrent
<1> QED
  BY <1>3, <1>4, <1>5, <1>6 DEF EditsInv

LEMMA UndoRedoEdits == ASSUME EditsInv, Undo \/ Redo PROVE EditsInv'
<1> USE DEF Undo, Redo
<1>1. /\ changes' \in Sound /\ undoStack' \in Seq(Sound) /\ redoStack' \in Seq(Sound)
      /\ Len(undoStack') + Len(redoStack') = Len(undoStack) + Len(redoStack)
  <2>1. ListsSound
    BY DEF EditsInv
  <2>2. CASE Undo
    BY <2>1, <2>2, StacksTyped, MovesOf
  <2>3. CASE Redo
    <3>1. /\ changes' \in Sound /\ undoStack' \in Seq(Sound) /\ redoStack' \in Seq(Sound)
          /\ Len(redoStack') + Len(undoStack') = Len(redoStack) + Len(undoStack)
      BY <2>1, <2>3, StacksTyped, MovesOf
    <3>2. Len(undoStack') \in Nat /\ Len(redoStack') \in Nat
      BY <3>1, LenProperties
    <3> QED
      BY <2>1, <3>1, <3>2, StacksTyped
  <2> QED
    BY <2>2, <2>3
<1>2. ListsSound'
  BY <1>1 DEF EditsInv, ListsSound, offering
<1>3. HistoryBounded'
  BY <1>1 DEF EditsInv, HistoryBounded
<1>4. FlagsTyped' /\ DraftIsCurrent'
  BY DEF EditsInv, FlagsTyped, DraftIsCurrent, Fires, offering
<1> QED
  BY <1>2, <1>3, <1>4 DEF EditsInv

LEMMA RemoveEdits ==
    ASSUME EditsInv, NEW id, RemoveChange(id)
    PROVE  EditsInv'
<1>1. ListsSound
  BY DEF EditsInv
<1>2. PICK i \in DOMAIN changes : changes' = RemoveAt(changes, i)
  BY DEF RemoveChange
<1>4. changes' \in Sound
  BY <1>1, <1>2, StacksTyped, RemoveSound
<1>5. undoStack' \in Seq(Sound) /\ redoStack' \in Seq(Sound) /\ HistoryBounded'
  BY <1>1, SaveUndoStateOf DEF RemoveChange
<1>6. ListsSound'
  BY <1>1, <1>4, <1>5 DEF RemoveChange, ListsSound, offering
<1>7. FlagsTyped' /\ DraftIsCurrent'
  BY DEF RemoveChange, EditsInv, FlagsTyped, DraftIsCurrent, Fires, offering
<1> QED
  BY <1>5, <1>6, <1>7 DEF EditsInv

LEMMA ClearEdits == ASSUME EditsInv, DiscardAll \/ Succeeds PROVE EditsInv'
<1> USE DEF DiscardAll, Succeeds, offering
<1>1. Clear /\ ListsSound
  BY DEF EditsInv
<1>2. CASE changes = <<>>
  <2>1. UNCHANGED <<tracker, timer, draft, offering, session, saved>>
    BY <1>1, <1>2 DEF Clear
  <2> QED
    BY <2>1, EditsAssumption
       DEF EditsInv, ListsSound, HistoryBounded, FlagsTyped, DraftIsCurrent, tracker
<1>3. CASE changes # <<>>
  <2>1. SaveUndoState /\ changes' = <<>> /\ timer' = TRUE /\ nextId' = nextId
    BY <1>1, <1>3 DEF Clear, Fires
  <2>2. undoStack' \in Seq(Sound) /\ redoStack' \in Seq(Sound) /\ HistoryBounded'
    BY <1>1, <2>1, SaveUndoStateOf
  <2>3. ListsSound'
    BY <1>1, <2>1, <2>2, EmptySound DEF ListsSound
  <2>4. FlagsTyped' /\ DraftIsCurrent'
    BY <2>1, EditsAssumption DEF EditsInv, FlagsTyped, DraftIsCurrent
  <2> QED
    BY <2>2, <2>3, <2>4 DEF EditsInv
<1> QED
  BY <1>2, <1>3

(* The steps that start no history and end none.                           *)
LEMMA OtherEdits ==
    ASSUME EditsInv,
           \/ Flush \/ Offer \/ DiscardDraft \/ DismissDraft \/ Prepare \/ GivesUp
           \/ UNCHANGED editsVars
    PROVE  EditsInv'
<1> USE DEF EditsInv, ListsSound, HistoryBounded, FlagsTyped, DraftIsCurrent, tracker, offering
<1>1. CASE Flush
  BY <1>1 DEF Flush
<1>2. CASE Offer
  <2>1. offer' \in {"due", "asked", "done"} /\ offered' \in Sound
    BY <1>2 DEF Offer
  <2> QED
    BY <1>2, <2>1 DEF Offer
<1>3. CASE DiscardDraft
  <2>1. ~saved' /\ saved' \in BOOLEAN
    BY <1>3, Zenon DEF DiscardDraft
  <2> QED
    BY <1>3, <2>1, EmptySound DEF DiscardDraft, Answered
<1>4. CASE DismissDraft
  BY <1>4, EmptySound DEF DismissDraft, Answered
<1>5. CASE Prepare \/ GivesUp
  BY <1>5, EditsAssumption DEF Prepare, GivesUp
<1>6. CASE UNCHANGED editsVars
  BY <1>6 DEF editsVars
<1> QED
  BY <1>1, <1>2, <1>3, <1>4, <1>5, <1>6

LEMMA ReplacedEdits == ASSUME EditsInv, Restore \/ Restart PROVE EditsInv'
<1>1. undoStack' = <<>> /\ redoStack' = <<>> /\ Len(<<>>) = 0
  BY DEF Restore, Restart
<1>2. HistoryBounded'
  BY <1>1, EditsAssumption DEF HistoryBounded
<1>3. ListsSound'
  BY <1>1, EmptySound DEF Restore, Restart, Answered, EditsInv, ListsSound
<1>4. FlagsTyped' /\ DraftIsCurrent'
  <2>1. CASE Restore
    BY <2>1 DEF Restore, Answered, Fires, EditsInv, FlagsTyped, DraftIsCurrent
  <2>2. CASE Restart
    <3>1. 1 \in 1 .. MaxIds + 1 /\ 0 \in 0..MaxApplies /\ session' \in 1..MaxSessions
      BY <2>2, EditsAssumption DEF Restart, EditsInv, FlagsTyped
    <3> QED
      BY <2>2, <3>1, Zenon DEF Restart, FlagsTyped, DraftIsCurrent
  <2> QED
    BY <2>1, <2>2
<1> QED
  BY <1>2, <1>3, <1>4 DEF EditsInv

LEMMA NextEdits == EditsInv /\ [EditsNext]_editsVars => EditsInv'
<1> SUFFICES ASSUME EditsInv, [EditsNext]_editsVars PROVE EditsInv'
  OBVIOUS
<1>1. ASSUME NEW t \in Targets, NEW v \in Values[t], Track(t, v) PROVE EditsInv'
  BY <1>1, TrackEdits
<1>2. ASSUME NEW c \in ToSet(changes), RemoveChange(c.id) PROVE EditsInv'
  BY <1>2, RemoveEdits
<1>3. CASE Undo \/ Redo
  BY <1>3, UndoRedoEdits
<1>4. CASE DiscardAll \/ Succeeds
  BY <1>4, ClearEdits
<1>5. CASE Restore \/ Restart
  BY <1>5, ReplacedEdits
<1>6. CASE \/ Flush \/ Offer \/ DiscardDraft \/ DismissDraft \/ Prepare \/ GivesUp
           \/ UNCHANGED editsVars
  BY <1>6, OtherEdits
<1> QED
  BY <1>1, <1>2, <1>3, <1>4, <1>5, <1>6 DEF EditsNext

LEMMA EditsInvariance == EditsSpec => []EditsInv
BY InitEdits, NextEdits, PTL DEF EditsSpec

(* The variables have their types; however snapshots go to and fro, no     *)
(* more of them are kept than were saved.                                  *)
THEOREM EditsTyped == EditsSpec => []EditsTypeOK
<1>1. ASSUME EditsInv PROVE EditsTypeOK
  <2>1. ListsSound /\ HistoryBounded /\ FlagsTyped
    BY <1>1 DEF EditsInv
  <2>2. changes \in Seq(Change) /\ draft \in Seq(Change) /\ offered \in Seq(Change)
    BY <2>1 DEF ListsSound, Sound
  <2>3. ASSUME NEW stack \in Seq(Sound) PROVE stack \in Seq(Seq(Change))
    <3>1. \A i \in 1 .. Len(stack) : stack[i] \in Seq(Change)
      BY SoundElement, ElementOfSeq
    <3> QED
      BY <3>1, IsASeq, LenProperties
  <2>4. Len(undoStack) <= MaxHistory /\ Len(redoStack) <= MaxHistory
    BY <2>1, StacksTyped, EditsAssumption DEF HistoryBounded
  <2> QED
    BY <2>1, <2>2, <2>3, <2>4 DEF EditsTypeOK, FlagsTyped, ListsSound
<1> QED
  BY <1>1, EditsInvariance, PTL

(* No cell has two pending values, in the list, in the draft or in the     *)
(* draft that is offered (addCellChange, undo, redo, removeChange,         *)
(* restore).                                                               *)
THEOREM NoTwoValues == EditsSpec => []OnePerCell
<1>1. ASSUME EditsInv PROVE OnePerCell
  <2>1. \A edits \in {changes, draft, offered} : edits \in Sound
    BY <1>1 DEF EditsInv, ListsSound
  <2> QED
    BY <2>1, Zenon DEF OnePerCell, Sound
<1> QED
  BY <1>1, EditsInvariance, PTL

(* A draft that this session has saved lacks only what the debounce still  *)
(* holds (createPendingChangesPersistence).                                *)
THEOREM DraftFollows == EditsSpec => []DraftIsCurrent
<1>1. EditsInv => DraftIsCurrent
  BY DEF EditsInv
<1> QED
  BY <1>1, EditsInvariance, PTL

(* A list that an operation of the tracker replaces, applying it included, *)
(* is on top of a stack afterwards.                                        *)
LEMMA StepRecovers ==
    ASSUME EditsInv, [EditsNext]_editsVars, changes' # changes, ~Restore, ~Restart
    PROVE  Recoverable(changes, undoStack') \/ Recoverable(changes, redoStack')
<1>1. ListsSound
  BY DEF EditsInv
<1>2. SaveUndoState \/ Undo \/ Redo
  BY DEF EditsNext, Track, RemoveChange, DiscardAll, Clear, Succeeds, Flush, Offer,
         DiscardDraft, DismissDraft, Prepare, GivesUp, editsVars, tracker
<1>3. CASE SaveUndoState
  BY <1>1, <1>3, SaveUndoStateOf
<1>4. CASE Undo
  BY <1>1, <1>4, StacksTyped, MovesOf DEF Undo
<1>5. CASE Redo
  BY <1>1, <1>5, StacksTyped, MovesOf DEF Redo
<1> QED
  BY <1>2, <1>3, <1>4, <1>5

(* What is cleared, removed, undone or redone can be had back by one undo  *)
(* or redo: edits made while a batch is out are cleared with it, and this  *)
(* is all that keeps them (ChangeTracker, commitPendingEdits).             *)
THEOREM NothingIsLost == EditsSpec => NothingUnrecoverable
<1>1. EditsInv /\ [EditsNext]_editsVars
         => [changes' # changes /\ ~Restore /\ ~Restart =>
                Recoverable(changes, undoStack') \/ Recoverable(changes, redoStack')]_editsVars
  BY StepRecovers
<1> QED
  BY <1>1, EditsInvariance, PTL DEF EditsSpec, NothingUnrecoverable

----------------------------------------------------------------------------
(* The order in which the changes are sent.                                *)

(* A set of numbers has a least one: the form in which induction is used.  *)
LEMMA LeastOf ==
    ASSUME NEW B \in SUBSET Nat, B # {}
    PROVE  \E m \in B : \A k \in B : m <= k
<1>1. IsWellFoundedOn({ss \in Nat \X Nat : ss[1] < ss[2]}, Nat)
  BY NatLessThanWellFounded DEF OpToRel
<1>2. PICK m \in B : \A k \in B : ~(<<k, m>> \in {ss \in Nat \X Nat : ss[1] < ss[2]})
  BY <1>1, WFMin
<1>3. \A k \in B : ~(k < m)
  BY <1>2
<1> QED
  BY <1>3

(* The places there can be.                                                *)
Places == Nat \X Nat \X Nat

(* Places are totally ordered.                                             *)
LEMMA BeforeOrders ==
    /\ \A p \in Places : ~Before(p, p)
    /\ \A p, q \in Places : p # q => Before(p, q) \/ Before(q, p)
    /\ \A p, q, r \in Places : Before(p, q) /\ Before(q, r) => Before(p, r)
<1>1. \A p \in Places : p[1] \in Nat /\ p[2] \in Nat /\ p[3] \in Nat
  BY DEF Places
<1>2. \A p, q \in Places : p[1] = q[1] /\ p[2] = q[2] /\ p[3] = q[3] => p = q
  BY DEF Places
<1>3. ASSUME NEW p \in Places, NEW q \in Places, p # q
      PROVE  Before(p, q) \/ Before(q, p)
  BY <1>1, <1>2, <1>3 DEF Before
<1>4. ASSUME NEW p \in Places, NEW q \in Places, NEW r \in Places, Before(p, q), Before(q, r)
      PROVE  Before(p, r)
  BY <1>1, <1>4 DEF Before
<1> QED
  BY <1>1, <1>3, <1>4 DEF Before

(* A finite set of places has one order, and InOrder() is it: the place    *)
(* that n - 1 places come before is the n-th.                              *)
LEMMA InOrderOf ==
    ASSUME NEW P \in SUBSET Places, IsFiniteSet(P)
    PROVE  /\ Cardinality(P) \in Nat
           /\ InOrder(P) \in [1..Cardinality(P) -> P]
           /\ \A p \in P : \E n \in 1..Cardinality(P) : InOrder(P)[n] = p
           /\ \A m, n \in 1..Cardinality(P) : Before(InOrder(P)[m], InOrder(P)[n]) <=> m < n
<1> DEFINE N == Cardinality(P)
           Earlier(p) == {q \in P : Before(q, p)}
           rank == [p \in P |-> Cardinality(Earlier(p))]
           Sorted(s) == \A n \in 2..N : Before(s[n - 1], s[n])
<1>1. N \in Nat
  BY FS_CardinalityType
<1>2. ASSUME NEW p \in P
      PROVE  IsFiniteSet(Earlier(p)) /\ Cardinality(Earlier(p)) \in 0 .. N - 1
  <2>1. Earlier(p) \in SUBSET (P \ {p})
    BY BeforeOrders
  <2>2. IsFiniteSet(P \ {p}) /\ Cardinality(P \ {p}) = N - 1
    BY FS_RemoveElement
  <2>3. IsFiniteSet(Earlier(p)) /\ Cardinality(Earlier(p)) <= N - 1
    BY <2>1, <2>2, FS_Subset
  <2>4. Cardinality(Earlier(p)) \in Nat
    BY <2>3, FS_CardinalityType
  <2> QED
    BY <1>1, <2>3, <2>4
<1>3. \A p \in P : rank[p] = Cardinality(Earlier(p))
  OBVIOUS
<1>4. rank \in [P -> 0 .. N - 1]
  BY <1>2
<1> HIDE DEF rank
<1>5. ASSUME NEW p \in P, NEW q \in P, Before(p, q)
      PROVE  rank[p] < rank[q]
  <2>1. p \in Earlier(q)
    BY <1>5
  <2>2. Earlier(p) \in SUBSET (Earlier(q) \ {p})
    BY <1>5, BeforeOrders
  <2>3. IsFiniteSet(Earlier(q) \ {p}) /\ Cardinality(Earlier(q) \ {p}) = Cardinality(Earlier(q)) - 1
    BY <2>1, <1>2, FS_RemoveElement
  <2>4. Cardinality(Earlier(p)) <= Cardinality(Earlier(q)) - 1
    BY <2>2, <2>3, FS_Subset
  <2> HIDE DEF Earlier
  <2>5. Cardinality(Earlier(p)) \in Int /\ Cardinality(Earlier(q)) \in Int
    BY <1>2
  <2>6. Cardinality(Earlier(p)) < Cardinality(Earlier(q))
    BY <2>4, <2>5
  <2> QED
    BY <2>6, <1>3
<1>6. rank \in Injection(P, 0 .. N - 1)
  <2>1. ASSUME NEW p \in P, NEW q \in P, rank[p] = rank[q] PROVE p = q
    BY <1>5, <1>4, <2>1, BeforeOrders
  <2> QED
    BY <1>4, <2>1 DEF Injection, IsInjective
<1>7. rank \in Surjection(P, 0 .. N - 1)
  <2>1. IsFiniteSet(0 .. N - 1) /\ Cardinality(0 .. N - 1) = N
    BY <1>1, FS_Interval
  <2> QED
    BY <1>6, <2>1, FS_Injection
<1>8. \E s \in [1..N -> P] : Sorted(s)
  <2> DEFINE s == [n \in 1..N |-> CHOOSE p \in P : rank[p] = n - 1]
  <2>1. ASSUME NEW n \in 1..N PROVE s[n] \in P /\ rank[s[n]] = n - 1
    <3>1. n - 1 \in 0 .. N - 1
      BY <1>1
    <3>2. \E p \in P : rank[p] = n - 1
      BY <3>1, <1>7 DEF Surjection
    <3> QED
      BY <3>2
  <2>2. s \in [1..N -> P]
    BY <2>1
  <2> HIDE DEF s
  <2>3. ASSUME NEW n \in 2..N PROVE Before(s[n - 1], s[n])
    <3>1. n \in 1..N /\ n - 1 \in 1..N
      BY <1>1
    <3>2. rank[s[n - 1]] = n - 1 - 1 /\ rank[s[n]] = n - 1 /\ s[n] \in P /\ s[n - 1] \in P
      BY <2>1, <3>1
    <3>3. s[n] # s[n - 1] /\ ~(rank[s[n]] < rank[s[n - 1]])
      BY <3>1, <3>2
    <3> QED
      BY <3>2, <3>3, <1>5, BeforeOrders
  <2> QED
    BY <2>2, <2>3
<1> DEFINE t == InOrder(P)
<1>9. t \in [1..N -> P] /\ Sorted(t)
  <2>1. t = CHOOSE s \in [1..N -> P] : Sorted(s)
    BY DEF InOrder
  <2> QED
    BY <1>8, <2>1
<1> HIDE DEF t
<1>10. ASSUME NEW m \in 1..N, NEW n \in 1..N, m < n
      PROVE  Before(t[m], t[n])
  <2> DEFINE Bad == {k \in 1..N : \E l \in 1..k - 1 : ~Before(t[l], t[k])}
  <2>1. SUFFICES ASSUME Bad # {} PROVE FALSE
    BY <1>1, <1>10
  <2>2. Bad \in SUBSET Nat
    OBVIOUS
  <2>3. PICK k \in Bad : \A l \in Bad : k <= l
    BY <2>1, <2>2, LeastOf
  <2>4. PICK l \in 1..k - 1 : ~Before(t[l], t[k])
    BY <2>3
  <2>5. k - 1 \in 1..N /\ k \in 2..N /\ l \in 1..N /\ k - 1 \notin Bad
    BY <2>3, <2>4, <1>1
  <2>6. Before(t[k - 1], t[k])
    BY <2>5, <1>9
  <2>7. l # k - 1
    BY <2>4, <2>6
  <2>8. Before(t[l], t[k - 1])
    BY <2>5, <2>7
  <2>9. t[l] \in Places /\ t[k - 1] \in Places /\ t[k] \in Places
    BY <1>9, <2>5
  <2> QED
    BY <2>4, <2>6, <2>8, <2>9, BeforeOrders
<1>11. ASSUME NEW m \in 1..N, NEW n \in 1..N, Before(t[m], t[n])
       PROVE  m < n
  <2>1. t[m] \in Places /\ t[n] \in Places
    BY <1>9
  <2>2. m # n
    BY <1>11, <2>1, BeforeOrders
  <2>3. ~(n < m)
    BY <1>10, <1>11, <2>1, BeforeOrders
  <2> QED
    BY <2>2, <2>3
<1>12. t \in Injection(1..N, P)
  <2>1. ASSUME NEW m \in 1..N, NEW n \in 1..N, t[m] = t[n] PROVE m = n
    <3>1. t[m] \in Places /\ t[n] \in Places
      BY <1>9
    <3>2. ~Before(t[m], t[n]) /\ ~Before(t[n], t[m])
      BY <2>1, <3>1, BeforeOrders
    <3> QED
      BY <1>10, <3>2
  <2> QED
    BY <1>9, <2>1 DEF Injection, IsInjective
<1>13. t \in Surjection(1..N, P)
  <2>1. Cardinality(1..N) = N
    BY <1>1, FS_Interval
  <2> QED
    BY <1>12, <2>1, FS_Injection
<1>14. \A p \in P : \E n \in 1..N : t[n] = p
  BY <1>13 DEF Surjection
<1> QED
  BY <1>1, <1>9, <1>10, <1>11, <1>14 DEF t

LEMMA FilterOf ==
    ASSUME NEW T, NEW s \in Seq(T), NEW I \in SUBSET (DOMAIN s)
    PROVE  /\ Filter(s, I) \in Seq(T)
           /\ ToSet(Filter(s, I)) = {s[i] : i \in I}
           /\ (\A i, j \in I : s[i] = s[j] => i = j) => IsInjective(Filter(s, I))
<1> DEFINE P == {<<1, 1, i>> : i \in I}
           N == Cardinality(P)
           kept == InOrder(P)
           f == Filter(s, I)
<1>1. DOMAIN s = 1..Len(s) /\ Len(s) \in Nat /\ \A i \in DOMAIN s : s[i] \in T
  OBVIOUS
<1>2. P \in SUBSET Places /\ IsFiniteSet(P)
  <2>1. P \in SUBSET Places
    BY <1>1 DEF Places
  <2>2. [p \in P |-> p[3]] \in Injection(P, 1..Len(s))
    BY <1>1 DEF Injection, IsInjective
  <2>3. IsFiniteSet(1..Len(s))
    BY <1>1, FS_Interval
  <2> QED
    BY <2>1, <2>2, <2>3, FS_Injection
<1>3. /\ N \in Nat
      /\ kept \in [1..N -> P]
      /\ \A p \in P : \E n \in 1..N : kept[n] = p
      /\ \A m, n \in 1..N : Before(kept[m], kept[n]) <=> m < n
  BY <1>2, InOrderOf
<1>4. f = [n \in 1..N |-> s[kept[n][3]]]
  BY <1>3 DEF Filter
<1> HIDE DEF kept, N, f
<1>5. ASSUME NEW n \in 1..N PROVE kept[n][3] \in I /\ kept[n] = <<1, 1, kept[n][3]>>
  BY <1>3
<1>6. f \in [1..N -> T]
  BY <1>1, <1>4, <1>5
<1>7. f \in Seq(T)
  BY <1>3, <1>6, IsASeq
<1>8. ASSUME NEW i \in I PROVE \E n \in 1..N : f[n] = s[i]
  <2>1. PICK n \in 1..N : kept[n] = <<1, 1, i>>
    BY <1>3
  <2> QED
    BY <2>1, <1>4
<1>9. DOMAIN f = 1..N /\ \A n \in 1..N : \E i \in I : f[n] = s[i]
  BY <1>4, <1>5
<1>10. ToSet(f) = {s[i] : i \in I}
  BY <1>8, <1>9 DEF ToSet
<1>11. ASSUME \A i, j \in I : s[i] = s[j] => i = j
       PROVE  IsInjective(f)
  <2>1. SUFFICES ASSUME NEW m \in 1..N, NEW n \in 1..N, f[m] = f[n] PROVE m = n
    BY <1>9 DEF IsInjective
  <2>2. kept[m][3] \in I /\ kept[n][3] \in I /\ s[kept[m][3]] = s[kept[n][3]]
    BY <1>4, <1>5, <2>1
  <2>3. kept[m][3] = kept[n][3]
    BY <1>11, <2>2
  <2>4. kept[m] = kept[n]
    BY <1>5, <2>3
  <2>5. kept[m] \in Places
    BY <1>2, <1>3
  <2>6. ~(m < n) /\ ~(n < m)
    BY <1>3, <2>4, <2>5, BeforeOrders
  <2> QED
    BY <2>6, <1>3
<1> QED
  BY <1>7, <1>10, <1>11 DEF f

(* uniqueTables() lists every table of the changes once.                   *)
LEMMA UniqueTablesOf ==
    ASSUME NEW C, NEW edits \in Seq(C)
    PROVE  LET T == {edits[i].table : i \in DOMAIN edits}
               tables == UniqueTables(edits)
           IN  tables \in Seq(T) /\ ToSet(tables) = T /\ IsInjective(tables)
<1> DEFINE T == {edits[i].table : i \in DOMAIN edits}
           all == [i \in DOMAIN edits |-> edits[i].table]
           New == {i \in DOMAIN edits : \A j \in 1 .. i - 1 : edits[j].table # edits[i].table}
           tables == UniqueTables(edits)
<1>1. DOMAIN edits = 1..Len(edits) /\ Len(edits) \in Nat
  OBVIOUS
<1>2. all \in [1..Len(edits) -> T]
  BY <1>1
<1>3. all \in Seq(T) /\ DOMAIN all = DOMAIN edits
  BY <1>1, <1>2, IsASeq
<1>4. tables = Filter(all, New)
  BY DEF UniqueTables
<1> HIDE DEF tables
<1>5. New \in SUBSET (DOMAIN all)
  BY <1>3
<1>6. ASSUME NEW i \in New, NEW j \in New, all[i] = all[j] PROVE i = j
  <2>1. edits[i].table = edits[j].table /\ i \in 1..Len(edits) /\ j \in 1..Len(edits)
    BY <1>6, <1>1
  <2>2. ~(i < j) /\ ~(j < i)
    BY <2>1
  <2> QED
    BY <2>1, <2>2
<1>7. ASSUME NEW i \in DOMAIN edits PROVE \E j \in New : all[j] = all[i]
  <2> DEFINE Of == {j \in DOMAIN edits : edits[j].table = edits[i].table}
  <2>1. Of \in SUBSET Nat /\ Of # {}
    BY <1>1
  <2>2. PICK j \in Of : \A k \in Of : j <= k
    BY <2>1, LeastOf
  <2>3. j \in New
    BY <2>2, <1>1
  <2> QED
    BY <2>2, <2>3
<1>8. T = {all[i] : i \in DOMAIN edits} /\ New \subseteq DOMAIN edits
  OBVIOUS
<1> HIDE DEF all, New, T
<1>9. {all[i] : i \in New} = T
  BY <1>7, <1>8
<1>10. tables \in Seq(T) /\ ToSet(tables) = {all[i] : i \in New} /\ IsInjective(tables)
  BY <1>3, <1>4, <1>5, <1>6, FilterOf
<1> QED
  BY <1>9, <1>10 DEF tables, T

(* f is what N applications of g, one after the other, make of x.          *)
Iterating(f, S, x, g, N) ==
    f \in [0..N -> S] /\ f[0] = x /\ \A n \in 1..N : f[n] = g[f[n - 1]]

(* A loop of N turns can be run from any state.                            *)
LEMMA Iterates ==
    ASSUME NEW S, NEW x \in S, NEW g \in [S -> S], NEW N \in Nat
    PROVE  \E f : Iterating(f, S, x, g, N)
<1> DEFINE Runs(n) == {f \in [0..n -> S] : f[0] = x /\ \A i \in 1..n : f[i] = g[f[i - 1]]}
           Short == {n \in Nat : Runs(n) = {}}
<1>1. SUFFICES ASSUME Short # {} PROVE FALSE
  <2>1. N \notin Short
    BY <1>1
  <2>2. PICK f \in Runs(N) : TRUE
    BY <2>1
  <2>3. Iterating(f, S, x, g, N)
    BY <2>2 DEF Iterating
  <2> QED
    BY <2>3
<1>2. PICK m \in Short : \A k \in Short : m <= k
  <2>1. Short \in SUBSET Nat
    OBVIOUS
  <2> QED
    BY <1>1, <2>1, LeastOf
<1>3. m # 0
  <2>1. [i \in 0..0 |-> x] \in Runs(0)
    OBVIOUS
  <2> QED
    BY <2>1
<1>4. PICK f \in Runs(m - 1) : TRUE
  BY <1>2, <1>3
<1>5. [i \in 0..m |-> IF i = m THEN g[f[m - 1]] ELSE f[i]] \in Runs(m)
  BY <1>2, <1>3, <1>4
<1> QED
  BY <1>5

(* The states of Kahn's loop.                                              *)
Sorting(T) == [queue : Seq(T), sorted : Seq(T)]

LEMMA StartTyped ==
    ASSUME NEW T, NEW tables \in Seq(T), NEW fks
    PROVE  Start(tables, fks) \in Sorting(T)
<1> DEFINE I == {i \in DOMAIN tables : Parents(tables[i], tables, fks) = {}}
<1>1. I \in SUBSET (DOMAIN tables)
  OBVIOUS
<1> HIDE DEF I
<1>2. Filter(tables, I) \in Seq(T)
  BY <1>1, FilterOf
<1>3. Start(tables, fks) = [queue |-> Filter(tables, I), sorted |-> <<>>]
  BY DEF Start, I
<1> QED
  BY <1>2, <1>3 DEF Sorting

LEMMA FreedOf ==
    ASSUME NEW T, NEW tables \in Seq(T), NEW fks, NEW t, NEW sorted
    PROVE  LET freed == Freed(t, sorted, tables, fks)
           IN  /\ freed \in Seq(T)
               /\ \A c : c \in ToSet(freed) <=>
                     /\ c \in ToSet(tables)
                     /\ t \in Parents(c, tables, fks)
                     /\ Parents(c, tables, fks) \subseteq ToSet(sorted)
               /\ IsInjective(tables) => IsInjective(freed)
<1> DEFINE Waited(c) == t \in Parents(c, tables, fks) /\ Parents(c, tables, fks) \subseteq ToSet(sorted)
           I == {i \in DOMAIN tables : Waited(tables[i])}
           freed == Freed(t, sorted, tables, fks)
<1>1. freed = Filter(tables, I)
  BY DEF Freed
<1>2. I \in SUBSET (DOMAIN tables)
  OBVIOUS
<1>3. \A c : c \in {tables[i] : i \in I} <=> c \in ToSet(tables) /\ Waited(c)
  BY DEF ToSet
<1>4. IsInjective(tables) => \A i, j \in I : tables[i] = tables[j] => i = j
  BY <1>2 DEF IsInjective
<1> HIDE DEF I, freed
<1>5. /\ freed \in Seq(T)
      /\ ToSet(freed) = {tables[i] : i \in I}
      /\ (\A i, j \in I : tables[i] = tables[j] => i = j) => IsInjective(freed)
  BY <1>1, <1>2, FilterOf
<1>6. \A c : c \in ToSet(freed) <=> c \in ToSet(tables) /\ Waited(c)
  BY <1>3, <1>5
<1> QED
  BY <1>4, <1>5, <1>6 DEF freed

LEMMA TurnTyped ==
    ASSUME NEW T, NEW tables \in Seq(T), NEW fks, NEW s \in Sorting(T)
    PROVE  Turn(s, tables, fks) \in Sorting(T)
<1>1. CASE s.queue = <<>>
  BY <1>1 DEF Turn
<1>2. CASE s.queue # <<>>
  <2> DEFINE sorted == Append(s.sorted, Head(s.queue))
             freed == Freed(Head(s.queue), sorted, tables, fks)
  <2>1. Turn(s, tables, fks) = [queue |-> Tail(s.queue) \o freed, sorted |-> sorted]
    BY <1>2 DEF Turn
  <2>2. freed \in Seq(T)
    BY FreedOf
  <2> HIDE DEF freed
  <2>3. s.queue \in Seq(T) /\ s.sorted \in Seq(T)
    BY DEF Sorting
  <2>4. Head(s.queue) \in T /\ Tail(s.queue) \in Seq(T)
    BY <1>2, <2>3
  <2>5. Tail(s.queue) \o freed \in Seq(T) /\ sorted \in Seq(T)
    BY <2>2, <2>3, <2>4
  <2> QED
    BY <2>1, <2>5 DEF Sorting
<1> QED
  BY <1>1, <1>2

(* The turns of the loop are what Turn makes of one another.               *)
LEMMA TurnsOf ==
    ASSUME NEW T, NEW tables \in Seq(T), NEW fks
    PROVE  /\ Turns(tables, fks) \in [0..Len(tables) -> Sorting(T)]
           /\ Turns(tables, fks)[0] = Start(tables, fks)
           /\ \A n \in 1..Len(tables) :
                 Turns(tables, fks)[n] = Turn(Turns(tables, fks)[n - 1], tables, fks)
<1> DEFINE N == Len(tables)
           x == Start(tables, fks)
           S == Sorting(T)
           g == [s \in S |-> Turn(s, tables, fks)]
           R(f) == f = [n \in 0..N |-> IF n = 0 THEN x ELSE Turn(f[n - 1], tables, fks)]
           turn == CHOOSE f : R(f)
<1>1. N \in Nat
  OBVIOUS
<1>2. x \in S /\ g \in [S -> S]
  BY StartTyped, TurnTyped
<1>3. Turns(tables, fks) = turn
  BY DEF Turns
<1> HIDE DEF S, x, N
<1>4. PICK f \in [0..N -> S] : f[0] = x /\ \A n \in 1..N : f[n] = g[f[n - 1]]
  <2> HIDE DEF g
  <2>1. \E f : Iterating(f, S, x, g, N)
    BY <1>1, <1>2, Iterates
  <2> QED
    BY <2>1 DEF Iterating
<1>5. \A n \in 1..N : f[n] = Turn(f[n - 1], tables, fks)
  <2>1. ASSUME NEW n \in 1..N PROVE f[n - 1] \in S
    BY <1>1, <1>4
  <2> QED
    BY <1>4, <2>1
<1>6. R(f)
  BY <1>1, <1>4, <1>5
<1>7. R(turn)
  <2> HIDE DEF R
  <2> QED
    BY <1>6
<1> HIDE DEF turn
<1>8. \A n \in 0..N : turn[n] = IF n = 0 THEN x ELSE Turn(turn[n - 1], tables, fks)
  BY <1>7
<1>9. DOMAIN turn = 0..N /\ turn = [n \in 0..N |-> turn[n]]
  BY <1>7
<1> HIDE DEF R
<1>10. \A n \in 0..N : turn[n] = f[n]
  <2> DEFINE Other == {n \in 0..N : turn[n] # f[n]}
  <2>1. SUFFICES ASSUME Other # {} PROVE FALSE
    OBVIOUS
  <2>2. Other \in SUBSET Nat
    BY <1>1
  <2>3. PICK m \in Other : \A k \in Other : m <= k
    BY <2>1, <2>2, LeastOf
  <2>4. m # 0
    BY <1>1, <1>4, <1>8, <2>3
  <2>5. m \in 1..N /\ m - 1 \in 0..N /\ m - 1 \notin Other
    BY <1>1, <2>3, <2>4
  <2>6. turn[m - 1] = f[m - 1]
    BY <2>5
  <2>7. turn[m] = f[m]
    BY <1>5, <1>8, <2>4, <2>5, <2>6
  <2> QED
    BY <2>3, <2>7
<1>11. turn = f
  BY <1>4, <1>9, <1>10
<1> QED
  BY <1>3, <1>4, <1>5, <1>11 DEF S, x, N

(* The invariant of Kahn's loop, after n turns.  A table is queued or      *)
(* sorted as soon as its parents are sorted, and never before.             *)
KahnInv(s, n, tables, fks) ==
    /\ s \in Sorting(ToSet(tables))
    /\ IsInjective(s.queue) /\ IsInjective(s.sorted)
    /\ ToSet(s.queue) \cap ToSet(s.sorted) = {}
    /\ \A c \in ToSet(tables) :
          c \in ToSet(s.queue) \cup ToSet(s.sorted)
             <=> Parents(c, tables, fks) \subseteq ToSet(s.sorted)
    /\ \A i \in DOMAIN s.sorted : \A p \in Parents(s.sorted[i], tables, fks) :
          \E j \in 1 .. i - 1 : s.sorted[j] = p
    /\ s.queue = <<>> \/ Len(s.sorted) = n

LEMMA SeqOfItsSet ==
    ASSUME NEW T, NEW s \in Seq(T)
    PROVE  s \in Seq(ToSet(s))
<1>1. Len(s) \in Nat /\ s = [i \in 1..Len(s) |-> s[i]]
  OBVIOUS
<1>2. s \in [1..Len(s) -> ToSet(s)]
  BY <1>1 DEF ToSet
<1> QED
  BY <1>1, <1>2, IsASeq

(* It holds before the loop ...                                            *)
LEMMA StartKahn ==
    ASSUME NEW T, NEW tables \in Seq(T), IsInjective(tables), NEW fks
    PROVE  KahnInv(Start(tables, fks), 0, tables, fks)
<1> DEFINE I == {i \in DOMAIN tables : Parents(tables[i], tables, fks) = {}}
           s == Start(tables, fks)
<1>1. tables \in Seq(ToSet(tables))
  BY SeqOfItsSet
<1>2. s \in Sorting(ToSet(tables))
  BY <1>1, StartTyped
<1>3. s.queue = Filter(tables, I) /\ s.sorted = <<>>
  BY DEF Start
<1>4. {tables[i] : i \in I} = {c \in ToSet(tables) : Parents(c, tables, fks) = {}}
  BY DEF ToSet
<1>5. I \in SUBSET (DOMAIN tables) /\ \A i, j \in I : tables[i] = tables[j] => i = j
  BY DEF IsInjective
<1> HIDE DEF s, I
<1>6. ToSet(s.queue) = {c \in ToSet(tables) : Parents(c, tables, fks) = {}} /\ IsInjective(s.queue)
  BY <1>3, <1>4, <1>5, FilterOf
<1>7. ToSet(s.sorted) = {} /\ IsInjective(s.sorted) /\ DOMAIN s.sorted = {} /\ Len(s.sorted) = 0
  BY <1>3 DEF ToSet, IsInjective
<1> QED
  BY <1>2, <1>6, <1>7 DEF KahnInv, s

LEMMA TailOf ==
    ASSUME NEW T, NEW s \in Seq(T), s # <<>>
    PROVE  /\ Tail(s) \in Seq(T) /\ Head(s) \in T /\ Head(s) \in ToSet(s)
           /\ ToSet(s) = {Head(s)} \cup ToSet(Tail(s))
           /\ IsInjective(s) => IsInjective(Tail(s)) /\ Head(s) \notin ToSet(Tail(s))
<1>1. /\ Len(s) \in Nat \ {0} /\ DOMAIN s = 1..Len(s) /\ Head(s) = s[1] /\ s[1] \in T
      /\ Tail(s) \in Seq(T)
      /\ DOMAIN Tail(s) = 1 .. Len(s) - 1 /\ \A i \in 1 .. Len(s) - 1 : Tail(s)[i] = s[i + 1]
  OBVIOUS
<1>2. ASSUME NEW e \in ToSet(s), e # Head(s) PROVE e \in ToSet(Tail(s))
  <2>1. PICK i \in 1..Len(s) : s[i] = e
    BY <1>1 DEF ToSet
  <2>2. i - 1 \in 1 .. Len(s) - 1 /\ Tail(s)[i - 1] = e
    BY <1>1, <1>2, <2>1
  <2> QED
    BY <1>1, <2>2 DEF ToSet
<1>3. ASSUME NEW e \in ToSet(Tail(s)) PROVE \E i \in 2..Len(s) : s[i] = e
  <2>1. PICK i \in 1 .. Len(s) - 1 : Tail(s)[i] = e
    BY <1>1 DEF ToSet
  <2>2. i + 1 \in 2..Len(s) /\ s[i + 1] = e
    BY <1>1, <2>1
  <2> QED
    BY <2>2
<1>4. Head(s) \in ToSet(s) /\ ToSet(Tail(s)) \subseteq ToSet(s)
  BY <1>1, <1>3 DEF ToSet
<1>5. ASSUME IsInjective(s) PROVE IsInjective(Tail(s)) /\ Head(s) \notin ToSet(Tail(s))
  <2>1. \A i, j \in 1..Len(s) : s[i] = s[j] => i = j
    BY <1>1, <1>5 DEF IsInjective
  <2>2. \A i, j \in 1 .. Len(s) - 1 : Tail(s)[i] = Tail(s)[j] => i = j
    BY <1>1, <2>1
  <2>3. Head(s) \notin ToSet(Tail(s))
    BY <1>1, <1>3, <2>1
  <2> QED
    BY <1>1, <2>2, <2>3 DEF IsInjective
<1> QED
  BY <1>1, <1>2, <1>4, <1>5

LEMMA ConcatOf ==
    ASSUME NEW T, NEW s \in Seq(T), NEW u \in Seq(T)
    PROVE  /\ s \o u \in Seq(T) /\ ToSet(s \o u) = ToSet(s) \cup ToSet(u)
           /\ IsInjective(s) /\ IsInjective(u) /\ ToSet(s) \cap ToSet(u) = {} => IsInjective(s \o u)
<1>1. /\ Len(s) \in Nat /\ Len(u) \in Nat /\ DOMAIN s = 1..Len(s) /\ DOMAIN u = 1..Len(u)
      /\ s \o u \in Seq(T) /\ DOMAIN (s \o u) = 1 .. Len(s) + Len(u)
      /\ \A i \in 1 .. Len(s) + Len(u) : (s \o u)[i] = IF i <= Len(s) THEN s[i] ELSE u[i - Len(s)]
  OBVIOUS
<1> DEFINE w == s \o u
<1> HIDE DEF w
<1>2. /\ DOMAIN w = 1 .. Len(s) + Len(u)
       /\ \A i \in 1 .. Len(s) + Len(u) : w[i] = IF i <= Len(s) THEN s[i] ELSE u[i - Len(s)]
  BY <1>1 DEF w
<1>3. ToSet(w) \subseteq ToSet(s) \cup ToSet(u)
  BY <1>1, <1>2 DEF ToSet
<1>4. ToSet(s) \subseteq ToSet(w)
  BY <1>1, <1>2 DEF ToSet
<1>5. ASSUME NEW j \in 1..Len(u) PROVE u[j] \in ToSet(w)
  <2>1. Len(s) + j \in 1 .. Len(s) + Len(u) /\ ~(Len(s) + j <= Len(s)) /\ Len(s) + j - Len(s) = j
    BY <1>1
  <2>2. w[Len(s) + j] = u[j]
    BY <1>2, <2>1
  <2> QED
    BY <1>2, <2>1, <2>2 DEF ToSet
<1>6. ASSUME IsInjective(s), IsInjective(u), ToSet(s) \cap ToSet(u) = {} PROVE IsInjective(w)
  <2>1. SUFFICES ASSUME NEW i \in 1 .. Len(s) + Len(u), NEW j \in 1 .. Len(s) + Len(u), w[i] = w[j]
                 PROVE  i = j
    BY <1>2 DEF IsInjective
  <2>2. CASE i <= Len(s) /\ j <= Len(s)
    BY <1>1, <1>2, <1>6, <2>1, <2>2 DEF IsInjective
  <2>3. CASE ~(i <= Len(s)) /\ ~(j <= Len(s))
    <3>1. i - Len(s) \in 1..Len(u) /\ j - Len(s) \in 1..Len(u)
      BY <1>1, <2>3
    <3>2. u[i - Len(s)] = u[j - Len(s)]
      BY <1>2, <2>1, <2>3
    <3>3. i - Len(s) = j - Len(s)
      BY <1>1, <1>6, <3>1, <3>2 DEF IsInjective
    <3> QED
      BY <3>3, <1>1
  <2>4. ASSUME NEW k \in 1 .. Len(s) + Len(u), NEW l \in 1 .. Len(s) + Len(u),
               k <= Len(s), ~(l <= Len(s))
        PROVE  w[k] # w[l]
    <3>1. k \in 1..Len(s) /\ l - Len(s) \in 1..Len(u)
      BY <1>1, <2>4
    <3>2. w[k] \in ToSet(s) /\ w[l] \in ToSet(u)
      BY <1>1, <1>2, <2>4, <3>1 DEF ToSet
    <3> QED
      BY <1>6, <3>2
  <2> QED
    BY <2>1, <2>2, <2>3, <2>4
<1>7. ToSet(u) \subseteq ToSet(w)
  BY <1>1, <1>5 DEF ToSet
<1> QED
  BY <1>1, <1>3, <1>4, <1>6, <1>7 DEF w

LEMMA AppendSet ==
    ASSUME NEW T, NEW s \in Seq(T), NEW e \in T
    PROVE  /\ Append(s, e) \in Seq(T) /\ Len(Append(s, e)) = Len(s) + 1
           /\ \A i \in 1..Len(s) : Append(s, e)[i] = s[i]
           /\ Append(s, e)[Len(s) + 1] = e
           /\ ToSet(Append(s, e)) = ToSet(s) \cup {e}
           /\ IsInjective(s) /\ e \notin ToSet(s) => IsInjective(Append(s, e))
<1> DEFINE w == Append(s, e)
<1>1. /\ Len(s) \in Nat /\ DOMAIN s = 1..Len(s) /\ w \in Seq(T) /\ Len(w) = Len(s) + 1
      /\ DOMAIN w = 1 .. Len(s) + 1
      /\ \A i \in 1..Len(s) : w[i] = s[i]
      /\ w[Len(s) + 1] = e
  OBVIOUS
<1> HIDE DEF w
<1>2. ToSet(w) = ToSet(s) \cup {e}
  BY <1>1 DEF ToSet
<1>3. ASSUME IsInjective(s), e \notin ToSet(s) PROVE IsInjective(w)
  <2>1. SUFFICES ASSUME NEW i \in 1 .. Len(s) + 1, NEW j \in 1 .. Len(s) + 1, w[i] = w[j]
                 PROVE  i = j
    BY <1>1 DEF IsInjective
  <2>2. \A k \in 1..Len(s) : w[k] # e
    BY <1>1, <1>3 DEF ToSet
  <2>3. CASE i \in 1..Len(s) /\ j \in 1..Len(s)
    BY <1>1, <1>3, <2>1, <2>3 DEF IsInjective
  <2> QED
    BY <1>1, <2>1, <2>2, <2>3
<1> QED
  BY <1>1, <1>2, <1>3 DEF w

(* ... and every turn keeps it.                                            *)
LEMMA TurnKahn ==
    ASSUME NEW T, NEW tables \in Seq(T), IsInjective(tables), NEW fks,
           NEW n \in Nat, NEW s, KahnInv(s, n, tables, fks)
    PROVE  KahnInv(Turn(s, tables, fks), n + 1, tables, fks)
<1> DEFINE E == ToSet(tables)
           par(c) == Parents(c, tables, fks)
           t == Head(s.queue)
           r == Turn(s, tables, fks)
<1>1. tables \in Seq(E)
  BY SeqOfItsSet
<1>2. CASE s.queue = <<>>
  <2>1. r = s
    BY <1>2 DEF Turn
  <2> QED
    BY <1>2, <2>1 DEF KahnInv
<1>3. CASE s.queue # <<>>
  <2> DEFINE q == s.queue
             tail == Tail(q)
             old == s.sorted
             sorted == Append(old, t)
  <2> HIDE DEF E
  <2>1. s \in Sorting(E) /\ q \in Seq(E) /\ old \in Seq(E)
    BY DEF KahnInv, Sorting, E
  <2>2. IsInjective(q) /\ IsInjective(old) /\ Len(old) = n
    BY <1>3 DEF KahnInv
  <2>3. \A c \in ToSet(q) : c \notin ToSet(old)
    BY DEF KahnInv
  <2>4. \A c \in E : c \in ToSet(q) \cup ToSet(old) <=> par(c) \subseteq ToSet(old)
    BY DEF KahnInv, E
  <2>5. \A i \in DOMAIN old : \A p \in par(old[i]) : \E j \in 1 .. i - 1 : old[j] = p
    BY DEF KahnInv
  <2> DEFINE freed == Freed(t, sorted, tables, fks)
  <2>6. /\ r = [queue |-> tail \o freed, sorted |-> sorted]
        /\ freed \in Seq(E)
        /\ \A c : c \in ToSet(freed) <=> c \in E /\ t \in par(c) /\ par(c) \subseteq ToSet(sorted)
        /\ IsInjective(freed)
    <3>1. r = [queue |-> tail \o freed, sorted |-> sorted]
      BY <1>3 DEF Turn
    <3> HIDE DEF sorted, t
    <3>2. /\ freed \in Seq(E)
          /\ \A c : c \in ToSet(freed) <=>
                c \in ToSet(tables) /\ t \in par(c) /\ par(c) \subseteq ToSet(sorted)
          /\ IsInjective(tables) => IsInjective(freed)
      BY <1>1, FreedOf
    <3> HIDE DEF freed
    <3>3. \A c : c \in ToSet(freed) <=> c \in E /\ t \in par(c) /\ par(c) \subseteq ToSet(sorted)
      BY <3>2 DEF E
    <3> QED
      BY <3>1, <3>2, <3>3
  <2> HIDE DEF freed
  <2> HIDE DEF q, tail, old, t, r, par
  <2>7. /\ tail \in Seq(E) /\ t \in E
        /\ ToSet(q) = {t} \cup ToSet(tail)
        /\ IsInjective(tail) /\ t \notin ToSet(tail)
    BY <1>3, <2>1, <2>2, TailOf DEF tail, t, q
  <2>8. t \notin ToSet(old)
    BY <2>3, <2>7
  <2> DEFINE queued == tail \o freed
  <2>9. r.queue = queued /\ r.sorted = sorted
    BY <2>6
  <2> HIDE DEF sorted, queued
  <2>10. /\ sorted \in Seq(E) /\ Len(sorted) = n + 1
         /\ \A i \in 1..n : sorted[i] = old[i]
         /\ sorted[n + 1] = t
         /\ ToSet(sorted) = ToSet(old) \cup {t}
         /\ IsInjective(sorted)
    BY <2>1, <2>2, <2>7, <2>8, AppendSet DEF sorted
  <2>11. \A c \in ToSet(freed) : c \notin ToSet(q) /\ c \notin ToSet(old)
    BY <2>4, <2>6, <2>8
  <2>12. ToSet(tail) \cap ToSet(freed) = {}
    BY <2>7, <2>11
  <2>13. /\ queued \in Seq(E) /\ IsInjective(queued)
         /\ ToSet(queued) = ToSet(tail) \cup ToSet(freed)
    BY <2>6, <2>7, <2>12, ConcatOf DEF queued
  <2>14. r \in Sorting(E)
    BY <2>6, <2>10, <2>13 DEF Sorting, queued
  <2>15. ToSet(queued) \cap ToSet(sorted) = {}
    BY <2>3, <2>7, <2>10, <2>11, <2>13
  <2>16. ASSUME NEW c \in E
         PROVE  c \in ToSet(queued) \cup ToSet(sorted) <=> par(c) \subseteq ToSet(sorted)
    <3>1. ASSUME c \in ToSet(queued) \cup ToSet(sorted) PROVE par(c) \subseteq ToSet(sorted)
      <4>1. c \in ToSet(freed) \/ c \in ToSet(q) \cup ToSet(old)
        BY <2>7, <2>10, <2>13, <3>1
      <4> QED
        BY <2>4, <2>6, <2>10, <4>1
    <3>2. ASSUME par(c) \subseteq ToSet(sorted) PROVE c \in ToSet(queued) \cup ToSet(sorted)
      <4>1. CASE t \in par(c)
        BY <2>6, <2>13, <3>2, <4>1
      <4>2. CASE t \notin par(c)
        <5>1. c \in ToSet(q) \cup ToSet(old)
          BY <2>4, <2>10, <3>2, <4>2
        <5> QED
          BY <2>7, <2>10, <2>13, <5>1
      <4> QED
        BY <4>1, <4>2
    <3> QED
      BY <3>1, <3>2
  <2>17. ASSUME NEW i \in DOMAIN sorted, NEW p \in par(sorted[i])
         PROVE  \E j \in 1 .. i - 1 : sorted[j] = p
    <3>1. DOMAIN sorted = 1 .. n + 1 /\ DOMAIN old = 1..n
      BY <2>1, <2>2, <2>10
    <3>2. CASE i \in 1..n
      <4>1. PICK j \in 1 .. i - 1 : old[j] = p
        BY <2>5, <2>10, <3>1, <3>2
      <4>2. j \in 1..n
        BY <3>2
      <4> QED
        BY <2>10, <4>1, <4>2
    <3>3. CASE i = n + 1
      <4>1. sorted[i] = t
        BY <2>10, <3>3
      <4>2. p \in ToSet(old)
        BY <2>4, <2>7, <4>1
      <4>3. PICK j \in 1..n : old[j] = p
        BY <3>1, <4>2 DEF ToSet
      <4>4. j \in 1 .. i - 1 /\ sorted[j] = p
        BY <2>10, <3>3, <4>3
      <4> QED
        BY <4>4
    <3> QED
      BY <3>1, <3>2, <3>3
  <2>18. KahnInv(r, n + 1, tables, fks)
    BY <2>9, <2>10, <2>13, <2>14, <2>15, <2>16, <2>17 DEF KahnInv, E, par
  <2> QED
    BY <2>18 DEF r
<1> QED
  BY <1>2, <1>3

LEMMA TurnsKahn ==
    ASSUME NEW T, NEW tables \in Seq(T), IsInjective(tables), NEW fks
    PROVE  \A n \in 0..Len(tables) : KahnInv(Turns(tables, fks)[n], n, tables, fks)
<1> DEFINE N == Len(tables)
           turn == Turns(tables, fks)
           Bad == {n \in 0..N : ~KahnInv(turn[n], n, tables, fks)}
<1>1. SUFFICES ASSUME Bad # {} PROVE FALSE
  OBVIOUS
<1>2. N \in Nat /\ Bad \in SUBSET Nat
  OBVIOUS
<1>3. PICK m \in Bad : \A k \in Bad : m <= k
  BY <1>1, <1>2, LeastOf
<1>4. turn[0] = Start(tables, fks) /\ \A n \in 1..N : turn[n] = Turn(turn[n - 1], tables, fks)
  BY TurnsOf
<1> HIDE DEF turn
<1>5. m # 0
  BY <1>3, <1>4, StartKahn
<1>6. m \in 1..N /\ m - 1 \in Nat /\ m - 1 \in 0..N /\ m - 1 + 1 = m
  BY <1>2, <1>3, <1>5
<1>7. KahnInv(turn[m - 1], m - 1, tables, fks)
  BY <1>3, <1>6
<1>8. KahnInv(turn[m], m - 1 + 1, tables, fks)
  BY <1>4, <1>6, <1>7, TurnKahn
<1> QED
  BY <1>3, <1>6, <1>8

(* Kahn's loop has done its work when it has had a turn for every table: a *)
(* table that were still queued would not be one of those sorted, which    *)
(* are as many as there are tables.                                        *)
LEMMA TopoSortOf ==
    ASSUME NEW T, NEW tables \in Seq(T), IsInjective(tables), NEW fks
    PROVE  LET E == ToSet(tables)
               sorted == TopoSort(tables, fks)
           IN  /\ sorted \in Seq(E) /\ IsInjective(sorted)
               /\ \A c \in E : c \in ToSet(sorted) <=> Parents(c, tables, fks) \subseteq ToSet(sorted)
               /\ \A i \in DOMAIN sorted : \A p \in Parents(sorted[i], tables, fks) :
                     \E j \in 1 .. i - 1 : sorted[j] = p
<1> DEFINE E == ToSet(tables)
           N == Len(tables)
           s == Turns(tables, fks)[N]
<1>1. N \in Nat /\ DOMAIN tables = 1..N
  OBVIOUS
<1>2. KahnInv(s, N, tables, fks)
  BY <1>1, TurnsKahn
<1>3. TopoSort(tables, fks) = s.sorted
  BY DEF TopoSort
<1> HIDE DEF s, N
<1>4. /\ s.queue \in Seq(E) /\ s.sorted \in Seq(E) /\ IsInjective(s.sorted)
      /\ ToSet(s.queue) \cap ToSet(s.sorted) = {}
      /\ s.queue = <<>> \/ Len(s.sorted) = N
  BY <1>2 DEF KahnInv, Sorting
<1>5. s.queue = <<>>
  <2>1. SUFFICES ASSUME s.queue # <<>> PROVE FALSE
    OBVIOUS
  <2>2. tables \in Surjection(1..N, E)
    <3>1. tables \in [1..N -> E]
      <4>1. \A i \in 1..N : tables[i] \in E
        BY <1>1 DEF ToSet
      <4> QED
        BY <1>1, <4>1
    <3> QED
      BY <1>1, <3>1 DEF Surjection, ToSet
  <2>3. IsFiniteSet(1..N) /\ Cardinality(1..N) = N
    BY <1>1, FS_Interval
  <2>4. IsFiniteSet(E) /\ Cardinality(E) <= N /\ Cardinality(E) \in Nat
    BY <2>2, <2>3, FS_Surjection, FS_CardinalityType
  <2>5. s.sorted \in Injection(1..N, E)
    <3>1. s.sorted \in [1..N -> E]
      BY <1>4, <2>1
    <3> QED
      BY <1>4, <3>1 DEF Injection, IsInjective
  <2>6. Cardinality(1..N) <= Cardinality(E)
        /\ (Cardinality(1..N) = Cardinality(E) <=> s.sorted \in Surjection(1..N, E))
    BY <2>4, <2>5, FS_Injection
  <2>7. s.sorted \in Surjection(1..N, E)
    BY <1>1, <2>3, <2>4, <2>6
  <2>8. DOMAIN s.sorted = 1..N
    BY <1>4, <2>1
  <2>9. \A e \in E : e \in ToSet(s.sorted)
    BY <2>7, <2>8 DEF Surjection, ToSet
  <2>10. Head(s.queue) \in E /\ Head(s.queue) \in ToSet(s.queue)
    BY <1>4, <2>1, TailOf
  <2> QED
    BY <1>4, <2>9, <2>10
<1>6. ToSet(s.queue) = {}
  BY <1>5 DEF ToSet
<1>7. /\ \A c \in E : c \in ToSet(s.sorted) <=> Parents(c, tables, fks) \subseteq ToSet(s.sorted)
      /\ \A i \in DOMAIN s.sorted : \A p \in Parents(s.sorted[i], tables, fks) :
            \E j \in 1 .. i - 1 : s.sorted[j] = p
  BY <1>2, <1>6 DEF KahnInv
<1> HIDE DEF E
<1>8. /\ s.sorted \in Seq(E) /\ IsInjective(s.sorted)
      /\ \A c \in E : c \in ToSet(s.sorted) <=> Parents(c, tables, fks) \subseteq ToSet(s.sorted)
      /\ \A i \in DOMAIN s.sorted : \A p \in Parents(s.sorted[i], tables, fks) :
            \E j \in 1 .. i - 1 : s.sorted[j] = p
  BY <1>4, <1>7
<1> QED
  BY <1>3, <1>8 DEF E

(* The tables left unsorted are the ones that depend on a cycle: no other   *)
(* is left, and none of them can be sorted (_topoSort).                    *)
THEOREM SortedUnlessCircular ==
    ASSUME NEW T, NEW tables \in Seq(T), IsInjective(tables), NEW fks
    PROVE  LET E == ToSet(tables)
           IN  \A c \in E : c \in ToSet(TopoSort(tables, fks)) <=> c \notin Circular(E, fks)
<1> DEFINE E == ToSet(tables)
           sorted == TopoSort(tables, fks)
<1>1. /\ sorted \in Seq(E)
      /\ \A c \in E : c \in ToSet(sorted) <=> Parents(c, tables, fks) \subseteq ToSet(sorted)
      /\ \A i \in DOMAIN sorted : \A p \in Parents(sorted[i], tables, fks) :
            \E j \in 1 .. i - 1 : sorted[j] = p
  BY TopoSortOf
<1> HIDE DEF sorted
<1>2. ASSUME NEW c \in E, c \notin Circular(E, fks) PROVE c \in ToSet(sorted)
  <2> DEFINE U == {d \in E : d \notin ToSet(sorted)}
  <2>1. \A d \in U : \E p \in U : <<d, p>> \in fks
    BY <1>1 DEF Parents
  <2>2. U \subseteq Circular(E, fks)
    BY <2>1 DEF Circular
  <2> QED
    BY <1>2, <2>2
<1>3. ASSUME NEW c \in E, c \in Circular(E, fks), c \in ToSet(sorted) PROVE FALSE
  <2>1. PICK U \in SUBSET E : c \in U /\ \A d \in U : \E p \in U : <<d, p>> \in fks
    BY <1>3 DEF Circular
  <2> DEFINE In == {i \in DOMAIN sorted : sorted[i] \in U}
  <2>2. In \in SUBSET Nat
    BY <1>1
  <2>3. In # {}
    BY <1>3, <2>1 DEF ToSet
  <2>4. PICK m \in In : \A k \in In : m <= k
    BY <2>2, <2>3, LeastOf
  <2>5. PICK p \in U : <<sorted[m], p>> \in fks
    BY <2>1, <2>4
  <2>6. p \in Parents(sorted[m], tables, fks)
    BY <2>1, <2>5 DEF Parents
  <2>7. PICK j \in 1 .. m - 1 : sorted[j] = p
    BY <1>1, <2>4, <2>6
  <2>8. j \in In /\ j < m
    BY <1>1, <2>4, <2>7
  <2> QED
    BY <2>2, <2>4, <2>8
<1> QED
  BY <1>2, <1>3 DEF sorted

(* sortForInsert() lists every table once, and one that depends on no      *)
(* cycle after all of its parents.                                         *)
THEOREM ParentsFirst ==
    ASSUME NEW T, NEW tables \in Seq(T), IsInjective(tables), NEW fks
    PROVE  LET E == ToSet(tables)
               order == SortForInsert(tables, fks)
           IN  /\ order \in Seq(E) /\ ToSet(order) = E /\ IsInjective(order)
               /\ \A m, n \in DOMAIN order :
                     /\ order[n] \notin Circular(E, fks)
                     /\ <<order[n], order[m]>> \in fks
                     => m < n
<1> DEFINE E == ToSet(tables)
           order == SortForInsert(tables, fks)
           sorted == TopoSort(tables, fks)
           I == {i \in DOMAIN tables : tables[i] \notin ToSet(sorted)}
           rest == Filter(tables, I)
<1>1. order = sorted \o rest
  BY DEF SortForInsert
<1>2. /\ sorted \in Seq(E) /\ IsInjective(sorted)
      /\ \A c \in E : c \in ToSet(sorted) <=> Parents(c, tables, fks) \subseteq ToSet(sorted)
      /\ \A i \in DOMAIN sorted : \A p \in Parents(sorted[i], tables, fks) :
            \E j \in 1 .. i - 1 : sorted[j] = p
  BY TopoSortOf
<1>3. tables \in Seq(E)
  BY SeqOfItsSet
<1> HIDE DEF sorted
<1>4. I \in SUBSET (DOMAIN tables) /\ \A i, j \in I : tables[i] = tables[j] => i = j
  BY DEF IsInjective
<1>5. \A c : c \in {tables[i] : i \in I} <=> c \in E /\ c \notin ToSet(sorted)
  BY DEF ToSet
<1> HIDE DEF I
<1>6. rest \in Seq(E) /\ ToSet(rest) = {tables[i] : i \in I} /\ IsInjective(rest)
  BY <1>3, <1>4, FilterOf
<1> HIDE DEF rest, order
<1>7. ToSet(sorted) \subseteq E
  BY <1>2 DEF ToSet
<1> HIDE DEF E
<1>8. /\ \A c : c \in ToSet(rest) <=> c \in E /\ c \notin ToSet(sorted)
      /\ ToSet(sorted) \cap ToSet(rest) = {}
      /\ ToSet(sorted) \cup ToSet(rest) = E
  BY <1>5, <1>6, <1>7
<1>9. order \in Seq(E) /\ ToSet(order) = E /\ IsInjective(order)
  BY <1>1, <1>2, <1>6, <1>8, ConcatOf
<1>10. \A c \in E : c \notin Circular(E, fks) => c \in ToSet(sorted)
  BY SortedUnlessCircular DEF E, sorted
<1>11. ASSUME NEW m \in DOMAIN order, NEW n \in DOMAIN order,
              order[n] \notin Circular(E, fks), <<order[n], order[m]>> \in fks
       PROVE  m < n
  <2>1. /\ Len(sorted) \in Nat /\ Len(rest) \in Nat
        /\ DOMAIN sorted = 1..Len(sorted) /\ DOMAIN order = 1 .. Len(sorted) + Len(rest)
        /\ \A i \in 1..Len(sorted) : order[i] = sorted[i]
    BY <1>1, <1>2, <1>6
  <2>2. order[n] \in E /\ order[m] \in E
    BY <1>9
  <2>3. order[n] \in ToSet(sorted)
    BY <1>10, <1>11, <2>2
  <2>4. PICK i \in 1..Len(sorted) : sorted[i] = order[n]
    BY <2>1, <2>3 DEF ToSet
  <2>5. i \in DOMAIN order /\ order[i] = order[n]
    BY <2>1, <2>4
  <2>6. i = n
    BY <1>9, <2>5 DEF IsInjective
  <2>7. order[m] \in Parents(sorted[n], tables, fks)
    BY <1>11, <2>2, <2>4, <2>6 DEF Parents, E
  <2>8. PICK j \in 1 .. n - 1 : sorted[j] = order[m]
    BY <1>2, <2>1, <2>4, <2>6, <2>7
  <2>9. j \in 1..Len(sorted) /\ j \in DOMAIN order /\ order[j] = order[m]
    BY <2>1, <2>4, <2>6, <2>8
  <2>10. j = m
    BY <1>9, <2>9 DEF IsInjective
  <2> QED
    BY <2>1, <2>8, <2>10
<1> QED
  BY <1>9, <1>11 DEF E, order

LEMMA ReverseOf ==
    ASSUME NEW T, NEW s \in Seq(T)
    PROVE  /\ Reverse(s) \in Seq(T) /\ DOMAIN Reverse(s) = DOMAIN s
           /\ \A i \in DOMAIN s : /\ Len(s) - i + 1 \in DOMAIN s
                                  /\ Reverse(s)[i] = s[Len(s) - i + 1]
           /\ ToSet(Reverse(s)) = ToSet(s)
           /\ IsInjective(s) => IsInjective(Reverse(s))
<1> DEFINE r == Reverse(s)
<1>1. Len(s) \in Nat /\ DOMAIN s = 1..Len(s) /\ \A i \in 1..Len(s) : s[i] \in T
  OBVIOUS
<1>2. r = [i \in 1..Len(s) |-> s[Len(s) - i + 1]]
  BY DEF Reverse
<1>3. \A i \in 1..Len(s) : Len(s) - i + 1 \in 1..Len(s) /\ Len(s) - (Len(s) - i + 1) + 1 = i
  BY <1>1
<1>4. r \in Seq(T) /\ DOMAIN r = 1..Len(s) /\ \A i \in 1..Len(s) : r[i] = s[Len(s) - i + 1]
  <2>1. r \in [1..Len(s) -> T]
    BY <1>1, <1>2, <1>3
  <2> QED
    BY <1>1, <1>2, <2>1, IsASeq
<1> HIDE DEF r
<1>5. ToSet(r) \subseteq ToSet(s)
  BY <1>1, <1>3, <1>4 DEF ToSet
<1>6. ASSUME NEW i \in 1..Len(s) PROVE s[i] \in ToSet(r)
  <2>1. r[Len(s) - i + 1] = s[i] /\ Len(s) - i + 1 \in 1..Len(s)
    BY <1>3, <1>4
  <2> QED
    BY <1>4, <2>1 DEF ToSet
<1>7. ToSet(s) \subseteq ToSet(r)
  BY <1>1, <1>6 DEF ToSet
<1>8. ASSUME IsInjective(s) PROVE IsInjective(r)
  <2>1. SUFFICES ASSUME NEW i \in 1..Len(s), NEW j \in 1..Len(s), r[i] = r[j] PROVE i = j
    BY <1>4 DEF IsInjective
  <2>2. Len(s) - i + 1 = Len(s) - j + 1
    BY <1>1, <1>3, <1>4, <1>8, <2>1 DEF IsInjective
  <2> QED
    BY <1>1, <2>2
<1> QED
  BY <1>1, <1>3, <1>4, <1>5, <1>7, <1>8 DEF r

LEMMA FirstAtOf ==
    ASSUME NEW T, NEW s \in Seq(T), IsInjective(s), NEW e \in ToSet(s)
    PROVE  FirstAt(s, e) \in DOMAIN s /\ s[FirstAt(s, e)] = e
<1>1. PICK i \in DOMAIN s : s[i] = e
  BY DEF ToSet
<1>2. \A j \in DOMAIN s : s[j] = e => j = i
  BY <1>1 DEF IsInjective
<1>3. i \in Nat /\ \A j \in DOMAIN s : j < i => s[j] # e
  BY <1>2
<1> QED
  BY <1>1, <1>3 DEF FirstAt

(* The order lists every table of the changes, so none is left over.       *)
LEMMA PlacesOf ==
    ASSUME NEW edits, NEW kind, NEW order, NEW phase,
           \A i \in DOMAIN edits : edits[i].table \in ToSet(order)
    PROVE  ChangesInTableOrder(edits, kind, order, phase) =
              {<<phase, FirstAt(order, edits[i].table), i>> :
                  i \in {k \in DOMAIN edits : edits[k].kind = kind}}
BY DEF ChangesInTableOrder

(* Whatever the changes and the foreign keys,                              *)
(* orderPendingChangesForApply() rearranges the changes as it has to: a    *)
(* change is sent where its place is.                                      *)
THEOREM OrderRespects ==
    ASSUME NEW C, NEW edits \in Seq(C), NEW fks,
           \A i \in DOMAIN edits : edits[i].kind \in {"delete", "cell", "insert"}
    PROVE  Respects(edits, OrderForApply(edits, fks), fks)
<1> DEFINE L == Len(edits)
           T == {edits[i].table : i \in DOMAIN edits}
           tables == UniqueTables(edits)
           ins == SortForInsert(tables, fks)
           del == Reverse(ins)
           ofKind(kind) == {k \in DOMAIN edits : edits[k].kind = kind}
           rowOf(i) == IF edits[i].kind = "delete" THEN FirstAt(del, edits[i].table)
                                                  ELSE FirstAt(ins, edits[i].table)
           place == [i \in 1..L |-> <<Rank(edits[i].kind), rowOf(i), i>>]
           P == ChangesInTableOrder(edits, "delete", del, 1)
                \cup ChangesInTableOrder(edits, "cell", ins, 2)
                \cup ChangesInTableOrder(edits, "insert", ins, 3)
           s == InOrder(P)
           ordered == OrderForApply(edits, fks)
<1>1. L \in Nat /\ DOMAIN edits = 1..L
  OBVIOUS
<1>2. ordered = [n \in DOMAIN s |-> edits[s[n][3]]]
  BY DEF OrderForApply
<1>3. tables \in Seq(T) /\ ToSet(tables) = T /\ IsInjective(tables)
  BY UniqueTablesOf
<1> HIDE DEF tables
<1>4. /\ ins \in Seq(T) /\ ToSet(ins) = T /\ IsInjective(ins)
      /\ \A m, n \in DOMAIN ins :
            ins[n] \notin Circular(T, fks) /\ <<ins[n], ins[m]>> \in fks => m < n
  BY <1>3, ParentsFirst
<1> HIDE DEF ins
<1>5. /\ del \in Seq(T) /\ ToSet(del) = T /\ IsInjective(del) /\ DOMAIN del = DOMAIN ins
      /\ \A i \in DOMAIN ins : Len(ins) - i + 1 \in DOMAIN ins /\ del[i] = ins[Len(ins) - i + 1]
  BY <1>4, ReverseOf
<1> HIDE DEF del
<1>6. \A i \in 1..L : edits[i].table \in T /\ edits[i].kind \in {"delete", "cell", "insert"}
  BY <1>1
<1>7. ASSUME NEW t \in T
      PROVE  /\ FirstAt(ins, t) \in DOMAIN ins /\ ins[FirstAt(ins, t)] = t
             /\ FirstAt(del, t) \in DOMAIN ins /\ del[FirstAt(del, t)] = t
  BY <1>4, <1>5, FirstAtOf
<1>8. DOMAIN ins \subseteq Nat /\ Len(ins) \in Nat
  BY <1>4
<1>9. ASSUME NEW i \in 1..L PROVE place[i] \in Places
  BY <1>6, <1>7, <1>8 DEF Places, Rank
<1>10. P = {place[i] : i \in 1..L}
  <2>1. \A i \in DOMAIN edits : edits[i].table \in ToSet(ins) /\ edits[i].table \in ToSet(del)
    BY <1>1, <1>4, <1>5, <1>6
  <2> HIDE DEF T
  <2>2. ChangesInTableOrder(edits, "delete", del, 1) = {place[i] : i \in ofKind("delete")}
    <3>1. ChangesInTableOrder(edits, "delete", del, 1) =
             {<<1, FirstAt(del, edits[i].table), i>> : i \in ofKind("delete")}
      BY <2>1, PlacesOf
    <3>2. \A i \in ofKind("delete") : place[i] = <<1, FirstAt(del, edits[i].table), i>>
      BY <1>1 DEF Rank
    <3> HIDE DEF place, ofKind
    <3> QED
      BY <3>1, <3>2
  <2>3. ChangesInTableOrder(edits, "cell", ins, 2) = {place[i] : i \in ofKind("cell")}
    <3>1. ChangesInTableOrder(edits, "cell", ins, 2) =
             {<<2, FirstAt(ins, edits[i].table), i>> : i \in ofKind("cell")}
      BY <2>1, PlacesOf
    <3>2. \A i \in ofKind("cell") : place[i] = <<2, FirstAt(ins, edits[i].table), i>>
      BY <1>1 DEF Rank
    <3> HIDE DEF place, ofKind
    <3> QED
      BY <3>1, <3>2
  <2>4. ChangesInTableOrder(edits, "insert", ins, 3) = {place[i] : i \in ofKind("insert")}
    <3>1. ChangesInTableOrder(edits, "insert", ins, 3) =
             {<<3, FirstAt(ins, edits[i].table), i>> : i \in ofKind("insert")}
      BY <2>1, PlacesOf
    <3>2. \A i \in ofKind("insert") : place[i] = <<3, FirstAt(ins, edits[i].table), i>>
      BY <1>1 DEF Rank
    <3> HIDE DEF place, ofKind
    <3> QED
      BY <3>1, <3>2
  <2>5. 1..L = ofKind("delete") \cup ofKind("cell") \cup ofKind("insert")
    BY <1>1, <1>6
  <2> HIDE DEF place, ofKind
  <2> QED
    BY <2>2, <2>3, <2>4, <2>5
<1>11. \A i \in 1..L : place[i][1] = Rank(edits[i].kind) /\ place[i][2] = rowOf(i) /\ place[i][3] = i
  OBVIOUS
<1>12. DOMAIN place = 1..L /\ place = [i \in 1..L |-> place[i]]
  OBVIOUS
<1> HIDE DEF place, P, s, ordered, T
<1>13. place \in [1..L -> P]
  BY <1>10, <1>12
<1>14. place \in Injection(1..L, P)
  BY <1>11, <1>13 DEF Injection, IsInjective
<1>15. place \in Surjection(1..L, P)
  BY <1>10, <1>13 DEF Surjection
<1>16. IsFiniteSet(1..L) /\ Cardinality(1..L) = L
  BY <1>1, FS_Interval
<1>17. P \in SUBSET Places /\ IsFiniteSet(P) /\ Cardinality(P) = L
  BY <1>9, <1>10, <1>15, <1>14, <1>16, FS_Surjection
<1>18. /\ s \in [1..L -> P]
       /\ \A p \in P : \E n \in 1..L : s[n] = p
       /\ \A m, n \in 1..L : Before(s[m], s[n]) <=> m < n
  BY <1>17, InOrderOf DEF s
<1> DEFINE at == [i \in 1..L |-> CHOOSE n \in 1..L : s[n] = place[i]]
<1>19. ASSUME NEW i \in 1..L PROVE at[i] \in 1..L /\ s[at[i]] = place[i]
  <2>1. place[i] \in P
    BY <1>10
  <2> QED
    BY <1>18, <2>1
<1>20. at \in [1..L -> 1..L]
  BY <1>19
<1> HIDE DEF at
<1>21. \A i \in 1..L : ordered[at[i]] = edits[i]
  BY <1>2, <1>11, <1>18, <1>19
<1>22. IsInjective(at)
  <2>1. ASSUME NEW i \in 1..L, NEW j \in 1..L, at[i] = at[j] PROVE i = j
    BY <1>11, <1>19, <2>1
  <2> QED
    BY <1>20, <2>1 DEF IsInjective
<1>23. ordered \in [DOMAIN edits -> ToSet(edits)]
  <2>1. ASSUME NEW n \in 1..L PROVE edits[s[n][3]] \in ToSet(edits)
    <3>1. PICK i \in 1..L : s[n] = place[i]
      BY <1>10, <1>18
    <3> QED
      BY <1>1, <1>11, <3>1 DEF ToSet
  <2> QED
    BY <1>1, <1>2, <1>18, <2>1
<1>24. ASSUME NEW i \in 1..L, NEW j \in 1..L, Before(place[i], place[j]) PROVE at[i] < at[j]
  BY <1>18, <1>19, <1>24
<1>25. ASSUME NEW i \in 1..L, NEW j \in 1..L,
              Precedes(edits[i], edits[j], fks),
              edits[i].kind = edits[j].kind =>
                 {edits[i].table, edits[j].table} \cap Circular(T, fks) = {}
       PROVE  at[i] < at[j]
  <2> DEFINE c == edits[i]
             d == edits[j]
  <2>1. c.table \in T /\ d.table \in T
    BY <1>6
  <2>2. CASE Rank(c.kind) < Rank(d.kind)
    BY <1>11, <1>24, <2>2 DEF Before
  <2>3. CASE /\ c.kind = "delete" /\ d.kind = "delete"
             /\ <<c.table, d.table>> \in fks
    <3> DEFINE m == FirstAt(del, c.table)
               n == FirstAt(del, d.table)
    <3>1. m \in DOMAIN ins /\ n \in DOMAIN ins /\ del[m] = c.table /\ del[n] = d.table
      BY <1>7, <2>1
    <3> HIDE DEF m, n
    <3>2. /\ Len(ins) - m + 1 \in DOMAIN ins /\ ins[Len(ins) - m + 1] = c.table
          /\ Len(ins) - n + 1 \in DOMAIN ins /\ ins[Len(ins) - n + 1] = d.table
      BY <1>5, <3>1
    <3>3. c.table \notin Circular(T, fks)
      BY <1>25, <2>3
    <3>4. Len(ins) - n + 1 < Len(ins) - m + 1
      BY <1>4, <2>3, <3>2, <3>3
    <3>5. m < n
      BY <1>8, <3>1, <3>4
    <3>6. rowOf(i) = m /\ rowOf(j) = n
      BY <2>3 DEF m, n
    <3> QED
      BY <1>11, <1>24, <2>3, <3>5, <3>6 DEF Before
  <2>4. CASE /\ c.kind = "insert" /\ d.kind = "insert"
             /\ <<d.table, c.table>> \in fks
    <3> DEFINE m == FirstAt(ins, c.table)
               n == FirstAt(ins, d.table)
    <3>1. m \in DOMAIN ins /\ n \in DOMAIN ins /\ ins[m] = c.table /\ ins[n] = d.table
      BY <1>7, <2>1
    <3> HIDE DEF m, n
    <3>2. d.table \notin Circular(T, fks)
      BY <1>25, <2>4
    <3>3. m < n
      BY <1>4, <2>4, <3>1, <3>2
    <3>4. rowOf(i) = m /\ rowOf(j) = n
      BY <2>4 DEF m, n
    <3> QED
      BY <1>11, <1>24, <2>4, <3>3, <3>4 DEF Before
  <2> QED
    BY <1>25, <2>2, <2>3, <2>4 DEF Precedes
<1>26. ASSUME NEW i \in 1..L, NEW j \in 1..L,
              edits[i].kind = edits[j].kind, edits[i].table = edits[j].table, i < j
       PROVE  at[i] < at[j]
  <2>1. rowOf(i) = rowOf(j)
    BY <1>26
  <2> HIDE DEF rowOf
  <2> QED
    BY <1>11, <1>24, <1>26, <2>1 DEF Before
<1>27. /\ at \in [DOMAIN edits -> DOMAIN edits]
       /\ \A i \in DOMAIN edits : ordered[at[i]] = edits[i]
       /\ IsInjective(at)
       /\ \A i, j \in DOMAIN edits :
             /\ Precedes(edits[i], edits[j], fks)
                /\ (edits[i].kind = edits[j].kind =>
                       {edits[i].table, edits[j].table} \cap Circular(T, fks) = {})
                   => at[i] < at[j]
             /\ edits[i].kind = edits[j].kind /\ edits[i].table = edits[j].table /\ i < j
                   => at[i] < at[j]
  BY <1>1, <1>20, <1>21, <1>22, <1>25, <1>26
<1> QED
  BY <1>23, <1>27 DEF Respects, ordered, T

(* The statements of a batch are the pending changes, each once: deletes   *)
(* before cells before inserts, a child deleted before and inserted after  *)
(* its parent unless a cycle is above one of them, and the changes of a    *)
(* kind and table as they were made (orderPendingChangesForApply,          *)
(* DependencySorter).                                                      *)
THEOREM SentRespectsKeys == EditsSpec => []SentInOrder
<1>1. ASSUME EditsInv PROVE SentInOrder
  <2>1. changes \in Seq(Change)
    BY <1>1 DEF EditsInv, ListsSound, Sound
  <2>2. \A i \in DOMAIN changes : changes[i].kind \in {"delete", "cell", "insert"}
    <3>1. \A i \in DOMAIN changes : changes[i] \in Change
      BY <2>1
    <3> QED
      BY <3>1 DEF Change
  <2> QED
    BY <2>1, <2>2, OrderRespects DEF SentInOrder, Ordered
<1> QED
  BY <1>1, EditsInvariance, PTL
=============================================================================
