-------------------------- MODULE CertStoreProofs ---------------------------
(***************************************************************************)
(* For any names, any number of renewals and removals, and however long a  *)
(* list waits for the loader: what is served for a name is dropped only if *)
(* its certificate was removed (KeepsServing), and never goes back to an   *)
(* older one (NeverOlder); and a handshake gets a certificate whenever one *)
(* in use covers the name, and one that does unless a wildcard of a domain *)
(* further up is in use (HandshakeCovered).                                *)
(*                                                                         *)
(* The first two are about the step that puts a set into use, and need     *)
(* what was true of it since its list was made.  Lists are handled in the  *)
(* order they were made and a name that was not removed stays in the       *)
(* folder, so that each list has the names of all the earlier ones         *)
(* (ListInv).  A file only ever gets a later version, so that what was     *)
(* read at any time is not later than what is read after it (VersionInv).  *)
(***************************************************************************)
EXTENDS CertStore, NatLemmas, SequenceTheorems, TLAPS

Contents == Versions \cup {Absent, Torn}
Writes == {"crt", "key"} \X Contents
Loading == ldPc \in {"crt", "chain", "key"}

\* The names of the list that is being loaded.
Loaded == ldLeft \cup DOMAIN ldSet

TypeInv ==
    /\ TypeOK
    /\ ldPc \in {"chain", "key"} => ldAt[1] \in ldLeft
    /\ ldPc = "key" => ldAt[2] \in Versions

\* The write of a certificate that is still to come is the next one of its change.
WriteInv ==
    \A n \in Names : \A i \in DOMAIN wr[n] :
        wr[n][i][1] = "crt" => i = 1 /\ wr[n][i][2] \in Versions /\ wr[n][i][2] <= changes + 1

\* The names of S are in the folder, and in every list that waits, unless removed.
Lasting(S) ==
    \A n \in S \ removed : crt[n] # Absent /\ \A i \in DOMAIN queue : n \in queue[i]

ListInv ==
    /\ Lasting(DOMAIN served)
    /\ Loading => Lasting(Loaded) /\ DOMAIN served \subseteq Loaded \cup removed
    /\ \A i \in DOMAIN queue :
          /\ \A n \in queue[i] \ removed : crt[n] # Absent
          /\ \A j \in i + 1 .. Len(queue) : queue[i] \subseteq queue[j] \cup removed

\* Version v of name n is not later than any that is on disk or to be written.
Past(n, v) ==
    /\ v <= changes + 1
    /\ crt[n] \in Versions => v <= crt[n]
    /\ \A i \in DOMAIN wr[n] : wr[n][i][1] = "crt" => v <= wr[n][i][2]

\* What is served of n, if it is, is not later than v.
NotNewer(n, v) == n \in DOMAIN served => served[n] <= v

VersionInv ==
    /\ \A n \in Names : crt[n] \in Versions => Past(n, crt[n])
    /\ \A n \in DOMAIN served : Past(n, served[n])
    /\ Loading => \A n \in DOMAIN ldSet : Past(n, ldSet[n]) /\ NotNewer(n, ldSet[n])
    /\ ldPc = "key" => Past(ldAt[1], ldAt[2]) /\ NotNewer(ldAt[1], ldAt[2])

CertInv == TypeInv /\ WriteInv /\ ListInv /\ VersionInv

-----------------------------------------------------------------------------
(* Versions, and changes of the folder *)

\* A file that is absent or torn holds no version.
LEMMA VersionFacts ==
    /\ Versions \subseteq Nat /\ Torn \in Nat
    /\ Absent \notin Versions /\ Torn \notin Versions /\ Torn # Absent
BY BoundsAssumption DEF Versions, Absent, Torn

\* The writes of a renewal: only the first is one of the certificate.
LEMMA RenewalWrites ==
    ASSUME NEW v \in Versions, NEW w, w = << <<"crt", v>>, <<"key", Torn>>, <<"key", v>> >>
    PROVE  /\ w \in Seq(Writes) /\ DOMAIN w = 1..3
           /\ w[1] = <<"crt", v>> /\ w[2] = <<"key", Torn>> /\ w[3] = <<"key", v>>
           /\ \A i \in DOMAIN w : w[i][1] = "crt" => i = 1 /\ w[i][2] = v
<1>1. <<"crt", v>> \in Writes /\ <<"key", Torn>> \in Writes /\ <<"key", v>> \in Writes
  BY DEF Writes, Contents
<1>2. /\ w \in Seq(Writes) /\ DOMAIN w = 1..3
      /\ w[1] = <<"crt", v>> /\ w[2] = <<"key", Torn>> /\ w[3] = <<"key", v>>
  BY <1>1
<1>3. \A i \in DOMAIN w : w[i][1] = "crt" => i = 1 /\ w[i][2] = v
  BY <1>2
<1> QED
  BY <1>2, <1>3

\* A step of a change under way takes the first write.
LEMMA NextWrite ==
    ASSUME NEW w \in Seq(Writes), w # << >>
    PROVE  /\ Head(w) = w[1] /\ w[1] \in Writes /\ 1 \in DOMAIN w
           /\ Tail(w) \in Seq(Writes)
           /\ \A i \in DOMAIN Tail(w) : i + 1 \in DOMAIN w /\ Tail(w)[i] = w[i + 1]
OBVIOUS

\* What each change of the folder does to the files of a name m and to the
\* writes still to come: the certificate is untouched, torn, gone, or becomes
\* the one that was to be written.
LEMMA FileEffect ==
    ASSUME CertInv, NEW n \in Names, Renew(n) \/ RemovePair(n) \/ Continue(n), NEW m \in Names
    PROVE  /\ crt' \in [Names -> Contents] /\ key' \in [Names -> Contents]
           /\ wr' \in [Names -> Seq(Writes)] /\ (changes' = changes \/ changes' = changes + 1)
           /\ changes' \in 0..MaxChanges
           /\ crt'[m] = Absent => crt[m] = Absent \/ m \in removed'
           /\ removed \subseteq removed' /\ removed' \subseteq Names
           /\ \/ crt'[m] = crt[m] \/ crt'[m] \notin Versions
              \/ /\ 1 \in DOMAIN wr[m] /\ wr[m][1] = <<"crt", crt'[m]>>
                 /\ \A i \in DOMAIN wr'[m] : wr'[m][i][1] # "crt"
           /\ \A i \in DOMAIN wr'[m] : wr'[m][i][1] = "crt" =>
                 \/ wr'[m] = wr[m]
                 \/ /\ i = 1 /\ wr'[m][i][2] \in Versions
                    /\ wr'[m][i][2] = changes + 2 /\ changes' = changes + 1
<1>0. /\ crt \in [Names -> Contents] /\ key \in [Names -> Contents]
      /\ wr \in [Names -> Seq(Writes)] /\ changes \in 0..MaxChanges /\ removed \subseteq Names
  BY DEF CertInv, TypeInv, TypeOK, Contents, Writes
<1>1. CASE Renew(n)
  <2>1. changes + 2 \in Versions /\ changes' = changes + 1 /\ changes' \in 0..MaxChanges
    BY <1>0, <1>1, BoundsAssumption DEF Renew, Begin, Versions
  <2>2. PICK v, w : v \in Versions /\ v = changes + 2 /\ w = << <<"crt", v>>, <<"key", Torn>>, <<"key", v>> >>
    BY <2>1
  <2>3. /\ w \in Seq(Writes)
        /\ \A i \in DOMAIN w : w[i][1] = "crt" => i = 1 /\ w[i][2] = v
    BY <2>2, RenewalWrites
  <2>4. wr' = [wr EXCEPT ![n] = w] /\ crt' = [crt EXCEPT ![n] = Torn] /\ UNCHANGED <<key, removed>>
    BY <1>1, <2>2 DEF Renew
  <2>5. Torn \in Contents
    BY DEF Contents
  <2> QED
    BY <1>0, <2>1, <2>2, <2>3, <2>4, <2>5, VersionFacts
<1>2. CASE RemovePair(n)
  <2>1. PICK w : w = << <<"key", Absent>> >>
    OBVIOUS
  <2>2. <<"key", Absent>> \in Writes /\ Absent \in Contents
    BY DEF Writes, Contents
  <2>3. w \in Seq(Writes) /\ \A i \in DOMAIN w : w[i][1] = "key"
    BY <2>1, <2>2
  <2>4. /\ wr' = [wr EXCEPT ![n] = w] /\ crt' = [crt EXCEPT ![n] = Absent]
        /\ key' = key /\ removed' = removed \cup {n}
    BY <1>2, <2>1 DEF RemovePair
  <2>5. changes' = changes + 1 /\ changes' \in 0..MaxChanges
    BY <1>0, <1>2, BoundsAssumption DEF RemovePair, Begin
  <2> QED
    BY <1>0, <2>2, <2>3, <2>4, <2>5, VersionFacts
<1>3. CASE Continue(n)
  <2>1. /\ Head(wr[n]) = wr[n][1] /\ wr[n][1] \in Writes /\ 1 \in DOMAIN wr[n]
        /\ Tail(wr[n]) \in Seq(Writes)
        /\ \A i \in DOMAIN Tail(wr[n]) :
              i + 1 \in DOMAIN wr[n] /\ Tail(wr[n])[i] = wr[n][i + 1]
    BY <1>0, <1>3, NextWrite DEF Continue
  <2>2. PICK file \in {"crt", "key"}, v \in Contents : wr[n][1] = <<file, v>>
    BY <2>1 DEF Writes
  <2>3. /\ crt' = IF file = "crt" THEN [crt EXCEPT ![n] = v] ELSE crt
        /\ key' = IF file = "key" THEN [key EXCEPT ![n] = v] ELSE key
        /\ wr' = [wr EXCEPT ![n] = Tail(wr[n])] /\ UNCHANGED <<changes, removed>>
    <3>1. Head(wr[n])[1] = file /\ Head(wr[n])[2] = v
      BY <2>1, <2>2
    <3>2. UNCHANGED <<changes, removed>> /\ wr' = [wr EXCEPT ![n] = Tail(wr[n])]
      BY <1>3 DEF Continue
    <3> QED
      BY <1>3, <3>1, <3>2 DEF Continue
  <2>4. file = "crt" => v \in Versions
    BY <2>1, <2>2 DEF CertInv, WriteInv
  <2>5. /\ crt' \in [Names -> Contents] /\ key' \in [Names -> Contents]
        /\ wr' \in [Names -> Seq(Writes)] /\ changes' = changes
        /\ removed' = removed
    BY <1>0, <2>1, <2>2, <2>3
  <2>6. crt'[m] = Absent => crt[m] = Absent
    BY <1>0, <2>3, <2>4, VersionFacts
  <2>7. \A i \in DOMAIN Tail(wr[n]) : Tail(wr[n])[i][1] # "crt"
    <3>1. \A i \in DOMAIN Tail(wr[n]) : i \in Nat /\ i >= 1
      BY <2>1
    <3> QED
      BY <2>1, <3>1 DEF CertInv, WriteInv
  <2>8. \/ crt'[m] = crt[m]
        \/ /\ 1 \in DOMAIN wr[m] /\ wr[m][1] = <<"crt", crt'[m]>>
           /\ \A i \in DOMAIN wr'[m] : wr'[m][i][1] # "crt"
    BY <1>0, <2>1, <2>2, <2>3, <2>7
  <2>9. \A i \in DOMAIN wr'[m] : wr'[m][i][1] = "crt" => wr'[m] = wr[m]
    BY <1>0, <2>1, <2>3, <2>7
  <2> QED
    BY <1>0, <2>5, <2>6, <2>8, <2>9
<1> QED
  BY <1>1, <1>2, <1>3

\* What was read of a name is still not later than what is on disk, or to be
\* written, after the folder changed.
LEMMA PastStep ==
    ASSUME CertInv, NEW n \in Names, Renew(n) \/ RemovePair(n) \/ Continue(n),
           NEW m \in Names, NEW v \in Versions, Past(m, v)
    PROVE  Past(m, v)'
<1>1. changes \in Nat /\ v \in Nat /\ Versions \subseteq Nat
  BY VersionFacts DEF CertInv, TypeInv, TypeOK
<1>2. /\ (changes' = changes \/ changes' = changes + 1)
      /\ \/ crt'[m] = crt[m] \/ crt'[m] \notin Versions
         \/ 1 \in DOMAIN wr[m] /\ wr[m][1] = <<"crt", crt'[m]>>
      /\ \A i \in DOMAIN wr'[m] : wr'[m][i][1] = "crt" =>
            wr'[m] = wr[m] \/ wr'[m][i][2] = changes + 2
  BY FileEffect
<1>3. v <= changes' + 1
  <2>1. v <= changes + 1
    BY DEF Past
  <2>2. changes' = changes \/ changes' = changes + 1
    BY <1>2
  <2> QED
    BY <1>1, <2>1, <2>2
<1>4. crt'[m] \in Versions => v <= crt'[m]
  BY <1>2 DEF Past
<1>5. \A i \in DOMAIN wr'[m] : wr'[m][i][1] = "crt" => v <= wr'[m][i][2]
  BY <1>1, <1>2 DEF Past
<1> QED
  BY <1>3, <1>4, <1>5 DEF Past

\* Whatever changes in the folder, the invariant holds.
LEMMA FileSteps ==
    ASSUME CertInv, NEW n \in Names, Renew(n) \/ RemovePair(n) \/ Continue(n)
    PROVE  CertInv'
<1> USE DEF CertInv
<1>1. /\ UNCHANGED <<noise, cooled, queue, ldPc, ldLeft, ldAt, ldSet, served>>
      /\ events' = events + 1 /\ calm' \in BOOLEAN
  <2>1. calm' \in BOOLEAN
    BY Zenon DEF Renew, RemovePair, Continue, Begin, CalmMoment
  <2> QED
    BY <2>1 DEF Renew, RemovePair, Continue, Begin, loader
<1>2. /\ crt' \in [Names -> Contents] /\ key' \in [Names -> Contents]
      /\ wr' \in [Names -> Seq(Writes)] /\ changes' \in 0..MaxChanges
      /\ removed \subseteq removed' /\ removed' \subseteq Names
      /\ \A m \in Names : crt'[m] = Absent => crt[m] = Absent \/ m \in removed'
  BY FileEffect
<1>3. TypeInv'
  <2>1. events' \in Nat
    BY <1>1 DEF TypeInv, TypeOK
  <2> QED
    BY <1>1, <1>2, <2>1 DEF TypeInv, TypeOK, Contents, Writes
<1>4. WriteInv'
  <2>1. \A m \in Names : \A i \in DOMAIN wr'[m] : wr'[m][i][1] = "crt" =>
           \/ wr'[m] = wr[m]
           \/ /\ i = 1 /\ wr'[m][i][2] \in Versions
              /\ wr'[m][i][2] = changes + 2 /\ changes' = changes + 1
    BY FileEffect
  <2>2. changes \in Nat /\ (changes' = changes \/ changes' = changes + 1) /\ Versions \subseteq Nat
    BY FileEffect, VersionFacts DEF TypeInv, TypeOK
  <2>3. changes + 1 <= changes' + 1
    BY <2>2
  <2>4. ASSUME NEW m \in Names, NEW i \in DOMAIN wr'[m], wr'[m][i][1] = "crt"
        PROVE  i = 1 /\ wr'[m][i][2] \in Versions /\ wr'[m][i][2] <= changes' + 1
    <3>1. CASE wr'[m] = wr[m]
      <4>1. i = 1 /\ wr[m][i][2] \in Versions /\ wr[m][i][2] <= changes + 1
        BY <2>4, <3>1 DEF WriteInv
      <4>2. wr[m][i][2] \in Nat
        BY <2>2, <4>1
      <4> QED
        BY <2>2, <2>3, <3>1, <4>1, <4>2
    <3>2. CASE wr'[m] # wr[m]
      BY <2>1, <2>2, <2>4, <3>2
    <3> QED
      BY <3>1, <3>2
  <2> QED
    BY <2>4 DEF WriteInv
<1>5. served \in Partial /\ ldSet \in Partial /\ ldLeft \subseteq Names /\ queue \in Seq(SUBSET Names)
  BY DEF TypeInv, TypeOK
<1>6. DOMAIN served \subseteq Names /\ DOMAIN ldSet \subseteq Names
  BY <1>5 DEF Partial
<1>7. \A m \in DOMAIN served : served[m] \in Versions
  BY <1>5 DEF Partial
<1>8. \A m \in DOMAIN ldSet : ldSet[m] \in Versions
  BY <1>5 DEF Partial
<1>9. ListInv'
  <2>1. \A S \in SUBSET Names : Lasting(S) => Lasting(S)'
    BY <1>1, <1>2 DEF Lasting
  <2>2. Loaded' = Loaded /\ Loading' = Loading /\ Loaded \subseteq Names
    BY <1>1, <1>5, <1>6 DEF Loaded, Loading
  <2>3. Lasting(DOMAIN served)'
    BY <1>1, <1>6, <2>1 DEF ListInv, Lasting
  <2>4. Loading' => Lasting(Loaded)' /\ (DOMAIN served \subseteq Loaded \cup removed)'
    BY <1>1, <1>2, <2>2 DEF ListInv, Lasting
  <2>5. ASSUME NEW i \in DOMAIN queue
        PROVE  /\ \A m \in queue[i] \ removed' : crt'[m] # Absent
               /\ \A j \in i + 1 .. Len(queue) : queue[i] \subseteq queue[j] \cup removed'
    <3>1. queue[i] \subseteq Names
      BY <1>5
    <3> QED
      BY <1>2, <3>1 DEF ListInv
  <2> QED
    BY <1>1, <2>3, <2>4, <2>5 DEF ListInv
<1>10. VersionInv'
  <2>1. \A m \in DOMAIN served : Past(m, served[m])'
    BY <1>1, <1>6, <1>7, PastStep DEF VersionInv, Past
  <2>2. Loading' => \A m \in DOMAIN ldSet : Past(m, ldSet[m])' /\ NotNewer(m, ldSet[m])'
    BY <1>1, <1>6, <1>8, PastStep DEF VersionInv, Past, NotNewer, Loading
  <2>3. ldPc' = "key" => Past(ldAt[1], ldAt[2])' /\ NotNewer(ldAt[1], ldAt[2])'
    BY <1>1, <1>5, PastStep DEF VersionInv, Past, NotNewer, TypeInv
  <2>4. ASSUME NEW m \in Names, crt'[m] \in Versions
        PROVE  Past(m, crt[m])'
    <3>1. CASE crt'[m] = crt[m]
      BY <2>4, <3>1, PastStep DEF VersionInv, Past
    <3>2. CASE crt'[m] # crt[m]
      <4>1. /\ 1 \in DOMAIN wr[m] /\ wr[m][1] = <<"crt", crt'[m]>>
            /\ \A i \in DOMAIN wr'[m] : wr'[m][i][1] # "crt"
        BY <2>4, <3>2, FileEffect
      <4>2. crt'[m] <= changes + 1
        BY <4>1 DEF WriteInv
      <4>3. changes \in Nat /\ (changes' = changes \/ changes' = changes + 1) /\ crt'[m] \in Nat
        <5>1. changes \in Nat
          BY DEF TypeInv, TypeOK
        <5>2. changes' = changes \/ changes' = changes + 1
          BY FileEffect
        <5> QED
          BY <2>4, <5>1, <5>2, VersionFacts
      <4>4. crt'[m] <= changes' + 1 /\ crt'[m] <= crt'[m]
        BY <4>2, <4>3
      <4> QED
        BY <4>1, <4>4 DEF Past
    <3> QED
      BY <3>1, <3>2
  <2> QED
    BY <1>1, <2>1, <2>2, <2>3, <2>4 DEF VersionInv
<1> QED
  BY <1>3, <1>4, <1>9, <1>10

-----------------------------------------------------------------------------
(* The watcher and the loader *)

\* The types of what is loaded and served.
LEMMA SetTypes ==
    ASSUME TypeInv
    PROVE  /\ DOMAIN served \subseteq Names /\ \A n \in DOMAIN served : served[n] \in Versions
           /\ DOMAIN ldSet \subseteq Names /\ \A n \in DOMAIN ldSet : ldSet[n] \in Versions
           /\ ldLeft \subseteq Names /\ Loaded \subseteq Names
           /\ queue \in Seq(SUBSET Names) /\ DOMAIN queue = 1..Len(queue) /\ Len(queue) \in Nat
<1>1. served \in Partial /\ ldSet \in Partial /\ ldLeft \subseteq Names /\ queue \in Seq(SUBSET Names)
  BY DEF TypeInv, TypeOK
<1>2. DOMAIN served \subseteq Names /\ DOMAIN ldSet \subseteq Names
  BY <1>1 DEF Partial
<1>3. \A n \in DOMAIN served : served[n] \in Versions
  BY <1>1 DEF Partial
<1>4. \A n \in DOMAIN ldSet : ldSet[n] \in Versions
  BY <1>1 DEF Partial
<1> QED
  BY <1>1, <1>2, <1>3, <1>4 DEF Loaded

\* Files, lists and the loader stay.
LEMMA OtherSteps ==
    ASSUME CertInv, Touch \/ Cool \/ Drop \/ UNCHANGED vars
    PROVE  CertInv'
<1> USE DEF CertInv
<1>1. /\ UNCHANGED <<crt, key, wr, changes, removed, queue, ldPc, ldLeft, ldAt, ldSet, served>>
      /\ noise' \in 0..MaxNoise /\ events' \in Nat
  <2>1. noise \in 0..MaxNoise /\ events \in Nat /\ MaxNoise \in Nat
    BY BoundsAssumption DEF TypeInv, TypeOK
  <2> QED
    BY <2>1 DEF Touch, Cool, Drop, vars, files, loader, watcher
<1>2. cooled' \in BOOLEAN /\ calm' \in BOOLEAN
  <2>1. cooled \in BOOLEAN /\ calm \in BOOLEAN
    BY DEF TypeInv, TypeOK
  <2>2. CASE Touch
    BY <2>1, <2>2, Zenon DEF Touch
  <2>3. CASE Cool \/ Drop \/ UNCHANGED vars
    BY <2>1, <2>3 DEF Cool, Drop, vars, watcher
  <2> QED
    BY <2>2, <2>3
<1>3. TypeInv'
  BY <1>1, <1>2 DEF TypeInv, TypeOK
<1>4. WriteInv' /\ ListInv' /\ VersionInv'
  BY <1>1 DEF WriteInv, ListInv, Lasting, Loading, Loaded, VersionInv, Past, NotNewer
<1> QED
  BY <1>3, <1>4

\* The list that watch_folder sends has the names of all the earlier ones.
LEMMA HandleStep ==
    ASSUME CertInv, Handle
    PROVE  CertInv'
<1> USE DEF CertInv
<1>1. /\ UNCHANGED <<crt, key, wr, changes, removed, noise, ldPc, ldLeft, ldAt, ldSet, served, calm>>
      /\ queue' = Append(queue, Listed) /\ events' = events - 1 /\ events > 0
      /\ cooled' = FALSE
  BY DEF Handle, files, loader
<1>2. Listed \in SUBSET Names /\ \A n \in Names : n \in Listed <=> crt[n] # Absent
  BY DEF Listed
<1>3. /\ queue' \in Seq(SUBSET Names) /\ Len(queue') = Len(queue) + 1
      /\ DOMAIN queue' = 1..(Len(queue) + 1) /\ DOMAIN queue = 1..Len(queue)
      /\ Len(queue) \in Nat
      /\ \A i \in DOMAIN queue : queue'[i] = queue[i] /\ queue[i] \subseteq Names
      /\ queue'[Len(queue) + 1] = Listed
  BY <1>1, <1>2, SetTypes
<1>4. events' \in Nat
  BY <1>1 DEF TypeInv, TypeOK
<1>5. TypeInv'
  BY <1>1, <1>3, <1>4 DEF TypeInv, TypeOK
<1>6. \A S \in SUBSET Names : Lasting(S) => Lasting(S)'
  BY <1>1, <1>2, <1>3 DEF Lasting
<1>7. Lasting(DOMAIN served)'
  BY <1>1, <1>6, SetTypes DEF ListInv, Lasting
<1>8. (Loading => Lasting(Loaded) /\ DOMAIN served \subseteq Loaded \cup removed)'
  BY <1>1, <1>6, SetTypes DEF ListInv, Lasting, Loading, Loaded
<1>9. ASSUME NEW i \in DOMAIN queue'
      PROVE  /\ \A n \in queue'[i] \ removed' : crt'[n] # Absent
             /\ \A j \in i + 1 .. Len(queue') : queue'[i] \subseteq queue'[j] \cup removed'
  <2>1. CASE i \in DOMAIN queue
    BY <1>1, <1>2, <1>3, <2>1 DEF ListInv
  <2>2. CASE i = Len(queue) + 1
    BY <1>1, <1>2, <1>3, <2>2
  <2> QED
    BY <1>3, <1>9, <2>1, <2>2
<1>10. ListInv'
  BY <1>7, <1>8, <1>9 DEF ListInv
<1>11. WriteInv' /\ VersionInv'
  BY <1>1 DEF WriteInv, VersionInv, Loading, Past, NotNewer
<1> QED
  BY <1>5, <1>10, <1>11

\* The loader begins with the oldest list.
LEMMA RecvStep ==
    ASSUME CertInv, LdRecv
    PROVE  CertInv'
<1> USE DEF CertInv
<1>1. /\ UNCHANGED <<crt, key, wr, changes, removed, noise, events, cooled, ldAt, served, calm>>
      /\ queue # << >> /\ queue' = Tail(queue) /\ ldLeft' = Head(queue) /\ ldSet' = Empty
      /\ ldPc' \in {"crt", "dead"}
  BY DEF LdRecv, files, watcher
<1>2. /\ queue' \in Seq(SUBSET Names) /\ Len(queue') = Len(queue) - 1
      /\ DOMAIN queue' = 1..(Len(queue) - 1) /\ DOMAIN queue = 1..Len(queue)
      /\ Len(queue) \in Nat /\ Len(queue) >= 1
      /\ Head(queue) = queue[1] /\ queue[1] \subseteq Names
      /\ \A i \in DOMAIN queue' : i + 1 \in DOMAIN queue /\ queue'[i] = queue[i + 1]
  BY <1>1, SetTypes
<1>3. DOMAIN ldSet' = {} /\ ldSet' \in Partial
  <2>1. Empty \in [{} -> Versions] /\ DOMAIN Empty = {}
    BY DEF Empty
  <2>2. [{} -> Versions] \subseteq Partial
    BY DEF Partial
  <2> QED
    BY <1>1, <2>1, <2>2
<1>4. Loaded' = queue[1]
  BY <1>1, <1>2, <1>3 DEF Loaded
<1>5. TypeInv'
  BY <1>1, <1>2, <1>3 DEF TypeInv, TypeOK
<1>6. Lasting(DOMAIN served)'
  BY <1>1, <1>2 DEF ListInv, Lasting
<1>7. ASSUME NEW n \in queue[1] \ removed
      PROVE  crt[n] # Absent /\ \A i \in DOMAIN queue' : n \in queue'[i]
  <2>1. 1 \in DOMAIN queue
    BY <1>2
  <2>2. \A i \in DOMAIN queue' : i + 1 \in 2..Len(queue)
    BY <1>2
  <2>3. \A j \in 2..Len(queue) : queue[1] \subseteq queue[j] \cup removed
    BY <2>1 DEF ListInv
  <2> QED
    BY <1>2, <1>7, <2>1, <2>2, <2>3 DEF ListInv
<1>8. Lasting(Loaded)' /\ (DOMAIN served \subseteq Loaded \cup removed)'
  <2>1. 1 \in DOMAIN queue
    BY <1>2
  <2>2. DOMAIN served \subseteq queue[1] \cup removed
    BY <2>1 DEF ListInv, Lasting
  <2> QED
    BY <1>1, <1>4, <1>7, <2>2 DEF Lasting
<1>9. ASSUME NEW i \in DOMAIN queue'
      PROVE  /\ \A n \in queue'[i] \ removed' : crt'[n] # Absent
             /\ \A j \in i + 1 .. Len(queue') : queue'[i] \subseteq queue'[j] \cup removed'
  <2>1. i + 1 \in DOMAIN queue /\ queue'[i] = queue[i + 1]
    BY <1>2, <1>9
  <2>2. \A j \in i + 1 .. Len(queue') :
           j \in DOMAIN queue' /\ j + 1 \in (i + 1) + 1 .. Len(queue) /\ queue'[j] = queue[j + 1]
    BY <1>2, <1>9
  <2> QED
    BY <1>1, <2>1, <2>2 DEF ListInv
<1>10. ListInv'
  BY <1>6, <1>8, <1>9 DEF ListInv
<1>11. VersionInv'
  BY <1>1, <1>3 DEF VersionInv, Past, NotNewer
<1>12. WriteInv'
  BY <1>1 DEF WriteInv
<1> QED
  BY <1>5, <1>10, <1>11, <1>12

\* Reading a certificate, for its names and for the context: it is not older
\* than the one that is served.
LEMMA CrtStep ==
    ASSUME CertInv, LdChain \/ \E n \in Names : LdCrt(n)
    PROVE  CertInv'
<1> USE DEF CertInv
<1>1. PICK n \in Names :
         /\ UNCHANGED <<crt, key, wr, changes, removed, noise, events, cooled, queue, ldLeft, ldSet,
                        served, calm>>
         /\ Loading /\ n \in ldLeft /\ ldAt' = <<n, crt[n]>>
         /\ ldPc' \in IF crt[n] \in Versions THEN {"chain", "key"} ELSE {"idle"}
  <2>1. CASE LdChain
    <3>1. ldAt[1] \in ldLeft /\ ldLeft \subseteq Names
      BY <2>1, SetTypes DEF LdChain, TypeInv
    <3> QED
      BY <2>1, <3>1 DEF LdChain, Loading, files, watcher
  <2>2. CASE \E n \in Names : LdCrt(n)
    BY <2>2 DEF LdCrt, Loading, files, watcher
  <2> QED
    BY <2>1, <2>2
<1>2. ldAt'[1] = n /\ ldAt'[2] = crt[n]
  BY <1>1
<1>3. TypeInv'
  BY <1>1, <1>2 DEF TypeInv, TypeOK
<1>4. ListInv' /\ WriteInv'
  BY <1>1 DEF ListInv, Lasting, Loading, Loaded, WriteInv
<1>5. ASSUME crt[n] \in Versions
      PROVE  Past(n, crt[n]) /\ NotNewer(n, crt[n])
  BY <1>5 DEF VersionInv, Past, NotNewer
<1>6. VersionInv'
  BY <1>1, <1>2, <1>5 DEF VersionInv, Past, NotNewer, Loading
<1> QED
  BY <1>3, <1>4, <1>6

\* The key fits: the pair is kept for the set that is being made.
LEMMA KeyStep ==
    ASSUME CertInv, LdKey
    PROVE  CertInv'
<1> USE DEF CertInv
<1>1. PICK n, v : n = ldAt[1] /\ v = ldAt[2]
  OBVIOUS
<1>2. /\ UNCHANGED <<crt, key, wr, changes, removed, noise, events, cooled, queue, ldAt, served, calm>>
      /\ ldPc = "key" /\ ldPc' = "crt" /\ ldLeft' = ldLeft \ {n}
      /\ ldSet' = [m \in DOMAIN ldSet \cup {n} |-> IF m = n THEN v ELSE ldSet[m]]
  BY <1>1 DEF LdKey, Keep, files, watcher
<1>3. n \in ldLeft /\ n \in Names /\ v \in Versions
  BY <1>1, <1>2, SetTypes DEF TypeInv
<1>4. /\ DOMAIN ldSet' = DOMAIN ldSet \cup {n}
      /\ \A m \in DOMAIN ldSet' : ldSet'[m] = IF m = n THEN v ELSE ldSet[m]
  BY <1>2
<1>5. ldSet' \in Partial
  <2>1. DOMAIN ldSet \cup {n} \in SUBSET Names
    BY <1>3, SetTypes
  <2>2. ldSet' \in [DOMAIN ldSet \cup {n} -> Versions]
    BY <1>2, <1>3, SetTypes
  <2> QED
    BY <2>1, <2>2 DEF Partial
<1>6. TypeInv'
  BY <1>2, <1>5 DEF TypeInv, TypeOK
<1>7. Loaded' = Loaded
  BY <1>2, <1>3, <1>4 DEF Loaded
<1>8. ListInv' /\ WriteInv'
  BY <1>2, <1>7 DEF ListInv, Lasting, Loading, WriteInv
<1>9. \A m \in DOMAIN ldSet' : Past(m, ldSet'[m]) /\ NotNewer(m, ldSet'[m])
  BY <1>1, <1>2, <1>4 DEF VersionInv, Loading
<1>10. VersionInv'
  BY <1>2, <1>9 DEF VersionInv, Past, NotNewer, Loading
<1> QED
  BY <1>6, <1>8, <1>10

\* A load that fails leaves all as it is.
LEMMA FailStep ==
    ASSUME CertInv, LdFail
    PROVE  CertInv'
<1> USE DEF CertInv
<1>1. /\ UNCHANGED <<crt, key, wr, changes, removed, noise, events, cooled, queue, ldLeft, ldAt, ldSet,
                     served, calm>>
      /\ ldPc' = "idle"
  BY DEF LdFail, files, watcher
<1>2. TypeInv'
  BY <1>1 DEF TypeInv, TypeOK
<1>3. ListInv' /\ WriteInv' /\ VersionInv'
  BY <1>1 DEF ListInv, Lasting, Loading, Loaded, WriteInv, VersionInv, Past, NotNewer
<1> QED
  BY <1>2, <1>3

\* The set comes into use: it has every name that was served and not removed,
\* with a certificate that is not older.
LEMMA StoreStep ==
    ASSUME CertInv, LdStore
    PROVE  /\ CertInv'
           /\ DOMAIN served \subseteq DOMAIN served' \cup removed
           /\ \A n \in DOMAIN served \cap DOMAIN served' : served[n] <= served'[n]
<1> USE DEF CertInv
<1>1. /\ UNCHANGED <<crt, key, wr, changes, removed, noise, events, cooled, queue, ldLeft, ldAt, ldSet,
                     calm>>
      /\ ldPc = "crt" /\ ldLeft = {} /\ ldPc' = "idle" /\ served' = ldSet
  BY DEF LdStore, files, watcher
<1>2. Loaded = DOMAIN ldSet
  BY <1>1 DEF Loaded
<1>3. TypeInv'
  BY <1>1 DEF TypeInv, TypeOK
<1>4. ListInv' /\ WriteInv'
  BY <1>1, <1>2 DEF ListInv, Lasting, Loading, Loaded, WriteInv
<1>5. VersionInv'
  BY <1>1 DEF VersionInv, Past, NotNewer, Loading
<1>6. DOMAIN served \subseteq DOMAIN served' \cup removed
  BY <1>1, <1>2 DEF ListInv, Loading
<1>7. \A n \in DOMAIN served \cap DOMAIN served' : served[n] <= served'[n]
  BY <1>1 DEF VersionInv, NotNewer, Loading
<1> QED
  BY <1>3, <1>4, <1>5, <1>6, <1>7

\* The invariant holds at start, with the first set loaded from the folder.
LEMMA InitHolds == Init => CertInv
<1> SUFFICES ASSUME Init PROVE CertInv
  OBVIOUS
<1>1. 1 \in Versions /\ Absent # 1
  BY BoundsAssumption DEF Versions, Absent
<1>2. /\ crt \in [Names -> Contents] /\ key = crt
      /\ \A n \in Names : crt[n] = IF n \in Present THEN 1 ELSE Absent
  BY <1>1 DEF Init, Contents
<1>3. /\ wr \in [Names -> Seq(Writes)] /\ \A n \in Names : DOMAIN wr[n] = {}
      /\ queue \in Seq(SUBSET Names) /\ DOMAIN queue = {}
  BY DEF Init
<1>4. served \in Partial /\ DOMAIN served = Present /\ \A n \in Present : served[n] = 1
  BY <1>1, PresentAssumption DEF Init, Partial
<1>5. ldSet \in Partial
  BY SMTT(30) DEF Init, Partial, Empty
<1>6. TypeInv
  <2>1. cooled \in BOOLEAN /\ calm \in BOOLEAN
    BY Zenon DEF Init
  <2>2. changes \in 0..MaxChanges /\ noise \in 0..MaxNoise /\ events \in Nat
    BY BoundsAssumption DEF Init
  <2> QED
    BY <1>2, <1>3, <1>4, <1>5, <2>1, <2>2 DEF Init, TypeInv, TypeOK, Contents, Writes
<1>7. WriteInv
  BY <1>3 DEF WriteInv
<1>8. ListInv
  BY <1>1, <1>2, <1>3, <1>4, PresentAssumption DEF Init, ListInv, Lasting, Loading
<1>9. \A n \in Present : Past(n, 1)
  BY <1>1, <1>2, <1>3, PresentAssumption DEF Init, Past
<1>10. VersionInv
  BY <1>1, <1>2, <1>4, <1>9, VersionFacts DEF Init, VersionInv, Loading
<1> QED
  BY <1>6, <1>7, <1>8, <1>10 DEF CertInv

\* Every step keeps the invariant.
LEMMA StepHolds == CertInv /\ [Next]_vars => CertInv'
BY FileSteps, OtherSteps, HandleStep, RecvStep, CrtStep, KeyStep, FailStep, StoreStep DEF Next, Load

\* The invariant holds in every state.
LEMMA Invariance == Spec => []CertInv
BY InitHolds, StepHolds, PTL DEF Spec

-----------------------------------------------------------------------------
(* Theorems *)

\* The variables keep their types.
THEOREM TypeCorrect == Spec => []TypeOK
<1>1. CertInv => TypeOK
  BY DEF CertInv, TypeInv
<1> QED
  BY <1>1, Invariance, PTL

\* No step but that of the loader which stores a set changes what is served.
LEMMA OnlyStore ==
    ASSUME Next, ~LdStore
    PROVE  served' = served
BY DEF Next, Load, Renew, RemovePair, Begin, Continue, Touch, Cool, Handle, Drop, LdRecv, LdCrt,
       LdChain, LdKey, LdFail

\* What is served for a name is dropped only if its certificate was removed,
\* whatever is being renewed while the list waits or the files are read.
THEOREM ServingKept == Spec => KeepsServing
<1> DEFINE Kept == \A n \in DOMAIN served : n \in DOMAIN served' \/ n \in removed
<1>1. CertInv /\ [Next]_vars => [Kept]_vars
  BY OnlyStore, StoreStep
<1> QED
  BY <1>1, Invariance, PTL DEF Spec, KeepsServing

\* What is served never goes back to an older certificate of the same name.
THEOREM NeverGoesBack == Spec => NeverOlder
<1> DEFINE Kept == \A n \in DOMAIN served : n \in DOMAIN served' => served'[n] >= served[n]
<1>1. CertInv /\ [Next]_vars => [Kept]_vars
  <2> SUFFICES ASSUME CertInv, Next, NEW n \in DOMAIN served, n \in DOMAIN served'
               PROVE  served'[n] >= served[n]
    OBVIOUS
  <2>1. CertInv'
    BY StepHolds
  <2>2. served[n] \in Nat /\ served'[n] \in Nat
    <3>1. served \in Partial /\ served' \in Partial
      BY <2>1 DEF CertInv, TypeInv, TypeOK
    <3>2. \A f \in Partial : \A x \in DOMAIN f : f[x] \in Versions
      BY DEF Partial
    <3>3. served[n] \in Versions /\ served'[n] \in Versions
      BY ONLY <3>1, <3>2, n \in DOMAIN served, n \in DOMAIN served', Zenon
    <3> QED
      BY <3>3, VersionFacts
  <2> QED
    BY <2>2, OnlyStore, StoreStep
<1> QED
  BY <1>1, Invariance, PTL DEF Spec, NeverOlder

-----------------------------------------------------------------------------
(* Handshakes *)

\* A suffix is what is left when some first elements are cut off.
LEMMA SuffixIsRest ==
    ASSUME NEW S, NEW s \in Seq(S), NEW T, NEW t \in Seq(T)
    PROVE  IsSuffix(s, t) <=> /\ Len(s) <= Len(t)
                              /\ \A j \in 1..Len(s) : s[j] = t[Len(t) - Len(s) + j]
<1>1. PICK k \in Nat, l \in Nat : k = Len(s) /\ l = Len(t)
  OBVIOUS
<1>2. PICK r, q : r = Reverse(s) /\ q = Reverse(t)
  OBVIOUS
<1>3. /\ r \in Seq(S) /\ Len(r) = k /\ \A i \in 1..k : r[i] = s[(k - i) + 1]
      /\ q \in Seq(T) /\ Len(q) = l /\ \A i \in 1..l : q[i] = t[(l - i) + 1]
  <2>1. r = [i \in 1..k |-> s[(k - i) + 1]] /\ q = [i \in 1..l |-> t[(l - i) + 1]]
    BY <1>1, <1>2 DEF Reverse
  <2>2. /\ \A i \in 1..k : s[(k - i) + 1] \in S
        /\ \A i \in 1..l : t[(l - i) + 1] \in T
    BY <1>1
  <2>3. r \in [1..k -> S] /\ q \in [1..l -> T]
    BY <2>1, <2>2
  <2> QED
    BY <2>1, <2>3
<1>4. IsSuffix(s, t) <=> k <= l /\ SubSeq(r, 1, k) = SubSeq(q, 1, k)
  BY <1>2, <1>3 DEF IsSuffix, IsPrefix
<1>5. ASSUME k <= l
      PROVE  SubSeq(r, 1, k) = SubSeq(q, 1, k) <=> \A i \in 1..k : r[i] = q[i]
  BY <1>3, <1>5
<1>6. ASSUME k <= l
      PROVE  (\A i \in 1..k : r[i] = q[i]) <=> \A j \in 1..k : s[j] = t[l - k + j]
  <2>1. \A i \in 1..k : r[i] = s[(k - i) + 1] /\ q[i] = t[(l - i) + 1]
    BY <1>3, <1>6
  <2>2. ASSUME \A i \in 1..k : r[i] = q[i], NEW j \in 1..k PROVE s[j] = t[l - k + j]
    <3>1. (k - j) + 1 \in 1..k
      OBVIOUS
    <3>2. s[(k - ((k - j) + 1)) + 1] = t[(l - ((k - j) + 1)) + 1]
      BY <2>1, <2>2, <3>1
    <3>3. (k - ((k - j) + 1)) + 1 = j /\ (l - ((k - j) + 1)) + 1 = l - k + j
      OBVIOUS
    <3> QED
      BY <3>2, <3>3
  <2>3. ASSUME \A j \in 1..k : s[j] = t[l - k + j], NEW i \in 1..k PROVE r[i] = q[i]
    <3>1. (k - i) + 1 \in 1..k /\ l - k + ((k - i) + 1) = (l - i) + 1
      OBVIOUS
    <3> QED
      BY <2>1, <2>3, <3>1
  <2> QED
    BY <2>2, <2>3
<1> QED
  BY <1>1, <1>4, <1>5, <1>6

\* ends_with finds the names that end like the wildcard, after any number of
\* labels.
LEMMA WildIsCover ==
    ASSUME NEW name, name \in Seq(Range(name)), NEW srv, srv \in Seq(Range(srv))
    PROVE  WildMatch(name, srv) <=> \E k \in 1..Len(srv) : WildFor(name, srv, k)
<1> SUFFICES ASSUME Len(name) > 1
             PROVE  (Len(srv) >= Len(name) /\ IsSuffix(Tail(name), srv)) <=>
                       \E prefix \in 1..Len(srv) :
                           SubSeq(srv, prefix + 1, Len(srv)) = Tail(name)
  BY DEF WildMatch, WildFor
<1>1. PICK k \in Nat, l \in Nat : Len(name) = k + 1 /\ l = Len(srv)
  <2>1. Len(name) - 1 \in Nat /\ Len(srv) \in Nat
    OBVIOUS
  <2> QED
    BY <2>1
<1>2. PICK s : s = Tail(name)
  OBVIOUS
<1>3. k >= 1 /\ Len(s) = k /\ s \in Seq(Range(name))
  BY <1>1, <1>2
<1>4. IsSuffix(s, srv) <=> k <= l /\ \A j \in 1..k : s[j] = srv[l - k + j]
  BY <1>1, <1>3, SuffixIsRest
<1>5. ASSUME l >= k + 1, IsSuffix(s, srv)
      PROVE  \E prefix \in 1..l : SubSeq(srv, prefix + 1, l) = s
  <2>1. l - k \in 1..l
    BY <1>3, <1>5
  <2>2. PICK m \in Nat : m = l - k
    BY <1>5
  <2>3. m \in 1..l /\ m + 1 <= l
    BY <1>3, <2>1, <2>2
  <2>4. PICK q : q = SubSeq(srv, m + 1, l)
    OBVIOUS
  <2>5. q \in Seq(Range(srv)) /\ Len(q) = k /\ \A j \in 1..k : q[j] = srv[m + j]
    BY <1>1, <2>2, <2>3, <2>4
  <2>6. \A j \in 1..k : s[j] = srv[m + j]
    BY <1>4, <1>5, <2>2
  <2>7. q = s
    BY <1>3, <2>5, <2>6, SeqEqual
  <2> QED
    BY <2>3, <2>4, <2>7
<1>6. ASSUME NEW prefix \in 1..l, SubSeq(srv, prefix + 1, l) = s
      PROVE  l >= k + 1 /\ IsSuffix(s, srv)
  <2>0. \A i \in (prefix + 1)..l : srv[i] \in Range(srv)
    BY <1>1
  <2>1. /\ Len(SubSeq(srv, prefix + 1, l)) = IF prefix + 1 <= l THEN l - (prefix + 1) + 1 ELSE 0
        /\ \A j \in 1..(l - (prefix + 1) + 1) :
              SubSeq(srv, prefix + 1, l)[j] = srv[(prefix + 1) + j - 1]
    <3>1. prefix + 1 \in Int /\ l \in Int
      OBVIOUS
    <3> QED
      BY <2>0, <3>1, SubSeqProperties
  <2>2. prefix = l - k /\ k <= l - 1
    BY <1>3, <1>6, <2>1
  <2>3. \A j \in 1..k : s[j] = srv[l - k + j]
    <3>1. \A j \in 1..k : j \in 1..(l - (prefix + 1) + 1) /\ (prefix + 1) + j - 1 = l - k + j
      BY <2>2
    <3> QED
      BY <1>6, <2>1, <3>1
  <2> QED
    BY <1>4, <2>2, <2>3
<1> QED
  BY <1>1, <1>2, <1>5, <1>6

\* A wildcard that ends_with accepts covers the name, or is of a domain further up.
LEMMA WildSplit ==
    ASSUME NEW name, name \in Seq(Range(name)), NEW srv, srv \in Seq(Range(srv))
    PROVE  WildMatch(name, srv) <=>
              WildFor(name, srv, 1) \/ \E k \in 2..Len(srv) : WildFor(name, srv, k)
<1>1. Len(srv) \in Nat
  OBVIOUS
<1>2. ASSUME WildFor(name, srv, 1) PROVE Len(srv) >= 1
  <2>1. SUFFICES ASSUME Len(srv) = 0 PROVE FALSE
    BY <1>1
  <2>2. Len(name) > 1
    BY <1>2 DEF WildFor
  <2>3. SubSeq(srv, 1 + 1, Len(srv)) = << >>
    BY <2>1, SubSeqEmpty
  <2>4. Tail(name) = << >>
    BY <1>2, <2>3, Zenon DEF WildFor
  <2>5. PICK s : s = Tail(name)
    OBVIOUS
  <2>6. Len(s) = Len(name) - 1
    BY <2>2, <2>5
  <2>7. Len(s) = 0
    BY <2>4, <2>5
  <2>8. Len(name) \in Nat
    OBVIOUS
  <2>9. Len(name) - 1 = 0
    BY <2>6, <2>7, Zenon
  <2>10. \A k \in Nat : k > 1 => k - 1 # 0
    OBVIOUS
  <2> QED
    BY <2>2, <2>8, <2>9, <2>10, Zenon
<1>3. (\E k \in 1..Len(srv) : WildFor(name, srv, k)) <=>
         WildFor(name, srv, 1) \/ \E k \in 2..Len(srv) : WildFor(name, srv, k)
  <2>1. Len(srv) >= 1 => 1..Len(srv) = {1} \cup 2..Len(srv)
    BY <1>1
  <2>2. Len(srv) < 1 => 1..Len(srv) = {} /\ 2..Len(srv) = {}
    BY <1>1
  <2> QED
    BY <1>1, <1>2, <2>1, <2>2
<1> QED
  BY <1>3, WildIsCover

\* The choice of find_ssl_context, for the set in use.
LEMMA ChoiceCovers ==
    ASSUME TypeOK, NEW srv \in ServerNames
    PROVE  LET able == {n \in DOMAIN served : Covers(n, srv)}
               exact == {n \in able : srv \in NamesOf(n)}
               above == {n \in DOMAIN served : CoversAbove(n, srv)}
               found == FindSslContext(srv)
           IN  /\ able # {} => found # {}
               /\ exact # {} => found \subseteq exact
               /\ found \subseteq able \cup above
<1> DEFINE able == {n \in DOMAIN served : Covers(n, srv)}
           exact == {n \in able : srv \in NamesOf(n)}
           above == {n \in DOMAIN served : CoversAbove(n, srv)}
           has == {i \in Configs : srv \in NamesOf(Order[i])}
           wild == {i \in Configs : \E name \in NamesOf(Order[i]) : WildMatch(name, srv)}
<1>1. DOMAIN served \subseteq Names /\ Len(Order) \in Nat /\ DOMAIN Order = 1..Len(Order)
  BY OrderAssumption DEF TypeOK, Partial
<1>2. Configs \in SUBSET (0..Len(Order)) /\ \A i \in Configs : Order[i] \in DOMAIN served
  BY <1>1 DEF Configs
<1>3. \A n \in DOMAIN served : \E i \in Configs : Order[i] = n
  BY <1>1, OrderAssumption DEF Configs, Range
<1>4. srv \in DOMAIN NameMap <=> has # {}
  BY DEF NameMap
<1>5. \A n \in DOMAIN served : srv \in NamesOf(n) => Covers(n, srv)
  BY DEF Covers
<1>6. ASSUME NEW n \in DOMAIN served
      PROVE  /\ (\E name \in NamesOf(n) : WildMatch(name, srv)) =>
                   Covers(n, srv) \/ CoversAbove(n, srv)
             /\ Covers(n, srv) =>
                   srv \in NamesOf(n) \/ \E name \in NamesOf(n) : WildMatch(name, srv)
  <2>1. srv \in Seq(Range(srv)) /\ \A name \in NamesOf(n) : name \in Seq(Range(name))
    BY <1>1, LabelsAssumption DEF NamesOf
  <2>2. \A name \in NamesOf(n) : WildMatch(name, srv) <=>
            WildFor(name, srv, 1) \/ \E k \in 2..Len(srv) : WildFor(name, srv, k)
    BY <2>1, WildSplit
  <2> QED
    BY <2>2 DEF Covers, CoversAbove
<1> HIDE DEF has, wild
<1>7. CASE has # {}
  <2>1. has \in SUBSET (0..Len(Order))
    BY <1>2 DEF has
  <2>2. PICK m \in has : \A y \in has : m >= y
    BY <1>1, <1>7, <2>1, GreatestNumber
  <2>3. Max(has) \in has
    BY <2>2 DEF Max
  <2>4. FindSslContext(srv) = {Order[Max(has)]}
    BY <1>4, <1>7 DEF FindSslContext, NameMap, has
  <2>5. Order[Max(has)] \in DOMAIN served /\ srv \in NamesOf(Order[Max(has)])
    BY <1>2, <2>3 DEF has
  <2>6. Order[Max(has)] \in exact
    BY <1>5, <2>5
  <2> QED
    BY <2>4, <2>6
<1>8. CASE has = {}
  <2>1. \A n \in DOMAIN served : srv \notin NamesOf(n)
    BY <1>3, <1>8 DEF has
  <2>2. exact = {}
    BY <2>1
  <2>3. FindSslContext(srv) = IF wild # {} THEN {Order[Min(wild)]} ELSE {}
    BY <1>4, <1>8 DEF FindSslContext, wild
  <2>4. \A n \in able : \E name \in NamesOf(n) : WildMatch(name, srv)
    BY <1>6, <2>1
  <2>5. able # {} => wild # {}
    BY <1>3, <2>4 DEF wild
  <2>6. ASSUME wild # {} PROVE Order[Min(wild)] \in able \cup above
    <3>1. wild \in SUBSET Nat
      BY <1>2 DEF wild
    <3>2. PICK m \in wild : \A y \in wild : m <= y
      BY <2>6, <3>1, LeastNumber
    <3>3. Min(wild) \in wild
      BY <3>2 DEF Min
    <3> QED
      BY <1>2, <1>6, <3>3 DEF wild
  <2> HIDE DEF able, exact, above
  <2> QED
    BY <2>2, <2>3, <2>5, <2>6 DEF able, exact, above
<1> QED
  BY <1>7, <1>8

\* For any certificates and names, a handshake gets a certificate with the very
\* name if one is in use, some certificate if any in use covers the name, and
\* one that covers it unless one with a wildcard of a domain further up is in
\* use (find_ssl_context).
THEOREM HandshakesCovered == Spec => []HandshakeCovered
<1>1. TypeOK => HandshakeCovered
  BY ChoiceCovers DEF HandshakeCovered
<1> QED
  BY <1>1, TypeCorrect, PTL
=============================================================================
