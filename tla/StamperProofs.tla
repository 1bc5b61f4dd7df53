---------------------------- MODULE StamperProofs ----------------------------
(***************************************************************************)
(* Stamper for every request, every file and every number of runs: what is *)
(* printed is what build made of the request under a key that stays in its *)
(* file, and what a node mines of it spends only coins of that key that    *)
(* are worth what was stated.                                              *)
(***************************************************************************)
EXTENDS Stamper, CountProofs, SequenceTheorems, TLAPS

-----------------------------------------------------------------------------
(* The key files, alone: theorems of KeyFile for every number of runs,      *)
(* commands and files.  A key that a file holds stays there, an address is  *)
(* printed of kept keys only, and all the files of a command are written    *)
(* before its address is out.                                               *)

Files(r) == Commands[run[r].command]

Working(r) == run[r].at \in {"create", "write", "show"}

(* The file p holds the whole key k. *)
HoldsKey(p, k) == p \in Kept /\ file[p].key = k

(* A run's key is only in files of its command, so in none before it began. *)
Owned ==
  \A p \in DOMAIN file, r \in Runs : file[p].key = r =>
    /\ run[r].at # "start" /\ run[r].command \in DOMAIN Commands
    /\ \E i \in DOMAIN Files(r) : Files(r)[i] = p

(* The file a run writes is its own; those it has written hold its key. *)
OwnsTarget(r) == Target(r) \in DOMAIN file /\ file[Target(r)].key = r

HoldsFirst(r) == \A i \in 1..run[r].next - 1 : HoldsKey(Files(r)[i], r)

HoldsAll(r) == \A i \in DOMAIN Files(r) : HoldsKey(Files(r)[i], r)

ProgressOf(r) ==
  /\ run[r].at = "write" => OwnsTarget(r)
  /\ run[r].at \in {"create", "write"} => HoldsFirst(r)
  /\ run[r].at = "show" => HoldsAll(r)

Progress == \A r \in Runs : ProgressOf(r)

(* An address was printed of a key that its file holds. *)
ShownKept == \A p \in Paths, k \in Keys : <<p, k>> \in shown => HoldsKey(p, k)

KeyInv == KeyTypeOK /\ Owned /\ Progress /\ ShownKept /\ AllFilesKept

-----------------------------------------------------------------------------
LEMMA FilesAreSequences ==
  ASSUME NEW c \in DOMAIN Commands
  PROVE  /\ Len(Commands[c]) \in Nat \ {0}
         /\ DOMAIN Commands[c] = 1..Len(Commands[c])
         /\ \A i \in DOMAIN Commands[c] : Commands[c][i] \in Paths
  BY KeyAssumption

(* What the types say of a file and of a run. *)
LEMMA Typed ==
  ASSUME KeyTypeOK
  PROVE  /\ DOMAIN file \subseteq Paths
         /\ \A p \in DOMAIN file :
              file[p] \in [key : Keys, text : 0..3, shared : BOOLEAN]
         /\ \A r \in Runs :
              /\ run[r] \in [at : Steps, command : DOMAIN Commands \cup {"none"}, next : Nat]
              /\ Working(r) => /\ run[r].command \in DOMAIN Commands
                               /\ run[r].next \in DOMAIN Files(r)
                               /\ Target(r) \in Paths
  <1>1. PICK S \in SUBSET Paths :
          file \in [S -> [key : Keys, text : 0..3, shared : BOOLEAN]]
    BY DEF KeyTypeOK
  <1>2. ASSUME NEW r \in Runs, Working(r)
        PROVE  /\ run[r].command \in DOMAIN Commands
               /\ run[r].next \in DOMAIN Files(r)
               /\ Target(r) \in Paths
    BY <1>2, FilesAreSequences DEF KeyTypeOK, Working, Target, Files
  <1>3. QED
    BY <1>1, <1>2 DEF KeyTypeOK

(* A run that goes on stays typed. *)
LEMMA RunTyped ==
  ASSUME KeyTypeOK, NEW r \in Runs, NEW x,
         x \in [at : Steps, command : DOMAIN Commands \cup {"none"}, next : Nat],
         x.at \in {"create", "write", "show"} =>
           x.command \in DOMAIN Commands /\ x.next \in DOMAIN Commands[x.command],
         run' = [run EXCEPT ![r] = x]
  PROVE  /\ run' \in [Runs -> [at : Steps, command : DOMAIN Commands \cup {"none"},
                               next : Nat]]
         /\ \A q \in Runs :
              run'[q].at \in {"create", "write", "show"} =>
                /\ run'[q].command \in DOMAIN Commands
                /\ run'[q].next \in DOMAIN Commands[run'[q].command]
  BY DEF KeyTypeOK

(* A file written with a typed value leaves all files typed. *)
LEMMA FileTyped ==
  ASSUME KeyTypeOK, NEW p \in Paths, NEW f \in [key : Keys, text : 0..3, shared : BOOLEAN],
         file' = Written(p, f)
  PROVE  /\ \E S \in SUBSET Paths :
              file' \in [S -> [key : Keys, text : 0..3, shared : BOOLEAN]]
         /\ DOMAIN file' = DOMAIN file \cup {p}
         /\ file'[p] = f
         /\ \A q \in DOMAIN file \ {p} : file'[q] = file[q]
  <1>1. DOMAIN file \cup {p} \in SUBSET Paths
    BY Typed
  <1>2. file' \in [DOMAIN file \cup {p} -> [key : Keys, text : 0..3, shared : BOOLEAN]]
    BY Typed DEF Written
  <1>3. QED
    BY <1>1, <1>2 DEF Written

-----------------------------------------------------------------------------
(* A step keeps the keys that files hold. *)
KeysStay == \A p \in Paths, k \in Keys : HoldsKey(p, k) => HoldsKey(p, k)'

(* The runs that take no part in a step go on where they are. *)
LEMMA OthersProgress ==
  ASSUME KeyInv, KeysStay, NEW r \in Runs, NEW q \in Runs \ {r}, run'[q] = run[q],
         run[q].at = "write" => Target(q) \in DOMAIN file' /\ file'[Target(q)].key = q
  PROVE  ProgressOf(q)'
  <1>1. Target(q)' = Target(q) /\ Files(q)' = Files(q)
    BY DEF Target, Files
  <1>2. q \in Keys
    BY DEF Keys
  <1>3. ASSUME Working(q)
        PROVE  /\ \A i \in DOMAIN Files(q) : Files(q)[i] \in Paths
               /\ \A i \in 1..run[q].next - 1 : i \in DOMAIN Files(q)
    <2>1. run[q].command \in DOMAIN Commands /\ run[q].next \in DOMAIN Files(q)
      BY <1>3, Typed DEF KeyInv
    <2>2. QED
      BY <2>1, FilesAreSequences DEF Files
  <1>4. run[q].at = "write" => OwnsTarget(q)'
    BY <1>1 DEF OwnsTarget
  <1>5. run[q].at \in {"create", "write"} => HoldsFirst(q)'
    <2>1. SUFFICES ASSUME run[q].at \in {"create", "write"}, NEW i \in 1..run[q].next - 1
                   PROVE  HoldsKey(Files(q)[i], q)'
      BY <1>1 DEF HoldsFirst
    <2>2. HoldsKey(Files(q)[i], q) /\ Files(q)[i] \in Paths
      BY <2>1, <1>3 DEF KeyInv, Progress, ProgressOf, HoldsFirst, Working
    <2>3. QED
      BY <2>2, <1>1, <1>2 DEF KeysStay, HoldsKey
  <1>6. run[q].at = "show" => HoldsAll(q)'
    <2>1. SUFFICES ASSUME run[q].at = "show", NEW i \in DOMAIN Files(q)
                   PROVE  HoldsKey(Files(q)[i], q)'
      BY <1>1 DEF HoldsAll
    <2>2. HoldsKey(Files(q)[i], q) /\ Files(q)[i] \in Paths
      BY <2>1, <1>3 DEF KeyInv, Progress, ProgressOf, HoldsAll, Working
    <2>3. QED
      BY <2>2, <1>1, <1>2 DEF KeysStay, HoldsKey
  <1>7. QED
    BY <1>4, <1>5, <1>6 DEF ProgressOf

(* What was printed stays true. *)
LEMMA PrintedStays ==
  ASSUME KeyInv, KeysStay,
         \A q \in Runs : run[q].at # "start" => run'[q].command = run[q].command
  PROVE  /\ \A p \in Paths, k \in Keys : <<p, k>> \in shown => HoldsKey(p, k)'
         /\ \A q \in Runs, p \in Paths : <<p, q>> \in shown => HoldsAll(q)'
  <1>1. ASSUME NEW q \in Runs, NEW p \in Paths, <<p, q>> \in shown
        PROVE  HoldsAll(q)'
    <2>1. q \in Keys
      BY DEF Keys
    <2>2. p \in DOMAIN file /\ file[p].key = q
      BY <1>1, <2>1 DEF KeyInv, ShownKept, HoldsKey, Kept
    <2>3. run[q].at # "start" /\ run[q].command \in DOMAIN Commands
      BY <2>2 DEF KeyInv, Owned
    <2>4. Files(q)' = Files(q)
      BY <2>3 DEF Files
    <2>5. \A i \in DOMAIN Files(q) : HoldsKey(Files(q)[i], q)
      BY <1>1 DEF KeyInv, AllFilesKept, HoldsKey, Files
    <2>6. \A i \in DOMAIN Files(q) : Files(q)[i] \in Paths
      BY <2>3, FilesAreSequences DEF Files
    <2>7. QED
      BY <2>1, <2>4, <2>5, <2>6 DEF KeysStay, HoldsKey, HoldsAll
  <1>2. QED
    BY <1>1 DEF KeyInv, ShownKept, KeysStay

-----------------------------------------------------------------------------
LEMMA Start == KeyInit => KeyInv
  <1> SUFFICES ASSUME KeyInit PROVE KeyInv
    OBVIOUS
  <1>1. PICK S \in SUBSET Paths :
          file \in [S -> [key : {Old}, text : 0..3, shared : BOOLEAN]]
    BY DEF KeyInit
  <1>2. /\ run \in [Runs -> [at : {"start", "done"}, command : {"none"}, next : {1}]]
        /\ shown = {}
    BY DEF KeyInit
  <1>3. KeyTypeOK
    <2>1. file \in [S -> [key : Keys, text : 0..3, shared : BOOLEAN]]
      BY <1>1 DEF Keys
    <2>2. run \in [Runs -> [at : Steps, command : DOMAIN Commands \cup {"none"}, next : Nat]]
      BY <1>2 DEF Steps
    <2>3. \A r \in Runs : run[r].at \notin {"create", "write", "show"}
      BY <1>2
    <2>4. QED
      BY <1>2, <2>1, <2>2, <2>3 DEF KeyTypeOK
  <1>4. Owned
    BY <1>1, KeyAssumption DEF Owned
  <1>5. Progress
    BY <1>2 DEF Progress, ProgressOf
  <1>6. QED
    BY <1>2, <1>3, <1>4, <1>5 DEF KeyInv, ShownKept, AllFilesKept

(* The steps that write no file: a run goes on, and the address of a key that
   all its files hold may be printed. *)
LEMMA NothingWritten ==
  ASSUME KeyInv, UNCHANGED file, NEW r \in Runs, NEW x,
         x \in [at : Steps, command : DOMAIN Commands \cup {"none"}, next : Nat],
         run' = [run EXCEPT ![r] = x],
         run[r].at # "start" => x.at # "start" /\ x.command = run[r].command,
         x.at = "create" => x.command \in DOMAIN Commands /\ x.next = 1,
         x.at \notin {"write", "show"},
         shown' \subseteq Paths \X Keys,
         \A p \in Paths, k \in Keys : <<p, k>> \in shown' \ shown =>
           HoldsKey(p, k) /\ (k \in Runs => HoldsAll(k))
  PROVE  KeyInv'
  <1>1. KeysStay
    BY DEF KeysStay, HoldsKey, Kept
  <1>2. /\ \A q \in Runs \ {r} : run'[q] = run[q]
        /\ run'[r] = x
    BY Typed DEF KeyInv, KeyTypeOK
  <1>3. KeyTypeOK'
    <2>1. x.at \in {"create", "write", "show"} =>
            x.command \in DOMAIN Commands /\ x.next \in DOMAIN Commands[x.command]
      BY FilesAreSequences
    <2>2. QED
      BY <2>1, RunTyped DEF KeyInv, KeyTypeOK
  <1>4. \A q \in Runs : run[q].at # "start" =>
          run'[q].command = run[q].command /\ run'[q].at # "start"
    BY <1>2
  <1>5. Owned'
    BY <1>4 DEF KeyInv, Owned, Files
  <1>6. ASSUME NEW q \in Runs PROVE ProgressOf(q)'
    <2>1. CASE q = r
      BY <2>1, <1>2 DEF ProgressOf, HoldsFirst
    <2>2. CASE q # r
      BY <2>2, <1>1, <1>2, OthersProgress DEF KeyInv, Progress, ProgressOf, OwnsTarget
    <2>3. QED
      BY <2>1, <2>2
  <1>7. ASSUME NEW p \in Paths, NEW k \in Keys, <<p, k>> \in shown'
        PROVE  HoldsKey(p, k)' /\ (k \in Runs => HoldsAll(k)')
    <2>1. CASE <<p, k>> \in shown
      BY <2>1, <1>1, <1>4, PrintedStays
    <2>2. CASE <<p, k>> \notin shown
      <3>1. HoldsKey(p, k) /\ (k \in Runs => HoldsAll(k))
        BY <2>2, <1>7
      <3>2. k \in Runs => run[k].at # "start"
        BY <3>1 DEF KeyInv, Owned, HoldsKey, Kept
      <3>3. k \in Runs => Files(k)' = Files(k)
        BY <3>2, <1>4 DEF Files
      <3>4. QED
        BY <3>1, <3>3 DEF HoldsKey, HoldsAll, Kept
    <2>3. QED
      BY <2>1, <2>2
  <1>8. ShownKept' /\ AllFilesKept'
    BY <1>7 DEF ShownKept, AllFilesKept, HoldsAll, HoldsKey, Files, Keys
  <1>9. QED
    BY <1>3, <1>5, <1>6, <1>8 DEF KeyInv, Progress

LEMMA BeginKeeps ==
  ASSUME KeyInv, NEW r \in Runs, NEW c \in DOMAIN Commands, Begin(r, c)
  PROVE  KeyInv'
  <1> DEFINE x == [at |-> "create", command |-> c, next |-> 1]
  <1>1. run' = [run EXCEPT ![r] = x] /\ UNCHANGED <<file, shown>> /\ run[r].at = "start"
    BY DEF Begin
  <1>2. x \in [at : Steps, command : DOMAIN Commands \cup {"none"}, next : Nat]
    BY DEF Steps
  <1>3. shown \subseteq Paths \X Keys
    BY DEF KeyInv, KeyTypeOK
  <1>4. QED
    BY <1>1, <1>2, <1>3, NothingWritten

(* A run ends, and its address may be out. *)
LEMMA EndKeeps ==
  ASSUME KeyInv, NEW r \in Runs, To(r, "done"), UNCHANGED file,
         \/ UNCHANGED shown
         \/ /\ run[r].at = "show"
            /\ shown' = shown \cup {<<Commands[run[r].command][1], r>>}
  PROVE  KeyInv'
  <1> DEFINE x == [run[r] EXCEPT !.at = "done"]
  <1>1. run[r] \in [at : Steps, command : DOMAIN Commands \cup {"none"}, next : Nat]
    BY Typed DEF KeyInv
  <1>2. x \in [at : Steps, command : DOMAIN Commands \cup {"none"}, next : Nat]
        /\ x.at = "done" /\ x.command = run[r].command
    BY <1>1 DEF Steps
  <1>3. run' = [run EXCEPT ![r] = x]
    BY DEF To
  <1>4. shown \subseteq Paths \X Keys
    BY DEF KeyInv, KeyTypeOK
  <1>5. CASE UNCHANGED shown
    BY <1>2, <1>3, <1>4, <1>5, NothingWritten
  <1>6. CASE /\ run[r].at = "show"
             /\ shown' = shown \cup {<<Commands[run[r].command][1], r>>}
    <2>1. run[r].command \in DOMAIN Commands /\ r \in Keys
      BY <1>6, Typed DEF KeyInv, Working, Keys
    <2>2. 1 \in DOMAIN Files(r) /\ Files(r)[1] \in Paths
      BY <2>1, FilesAreSequences DEF Files
    <2>3. HoldsAll(r)
      BY <1>6 DEF KeyInv, Progress, ProgressOf
    <2>4. HoldsKey(Files(r)[1], r)
      BY <2>2, <2>3 DEF HoldsAll
    <2>5. shown' \subseteq Paths \X Keys
      BY <1>4, <1>6, <2>1, <2>2 DEF Files
    <2>6. \A p \in Paths, k \in Keys : <<p, k>> \in shown' \ shown =>
            HoldsKey(p, k) /\ (k \in Runs => HoldsAll(k))
      BY <1>6, <2>3, <2>4 DEF Files
    <2>7. QED
      BY <1>2, <1>3, <2>5, <2>6, NothingWritten
  <1>7. QED
    BY <1>5, <1>6

LEMMA ReadBackKeeps ==
  ASSUME KeyInv, NEW p \in Paths, ReadBack(p)
  PROVE  KeyInv'
  <1>1. PICK c \in DOMAIN Commands : Commands[c] = <<p>>
    BY DEF ReadBack
  <1>2. /\ p \in Kept /\ file[p].key \in Keys
        /\ shown' = shown \cup {<<p, file[p].key>>} /\ UNCHANGED <<file, run>>
    BY Typed DEF ReadBack, Loads, Kept, KeyInv
  <1>3. KeyTypeOK'
    BY <1>2 DEF KeyInv, KeyTypeOK
  <1>4. Owned' /\ Progress'
    <2>1. Owned'
      BY <1>2 DEF KeyInv, Owned, Files
    <2>2. ASSUME NEW r \in Runs PROVE ProgressOf(r)'
      <3>1. ProgressOf(r)
        BY DEF KeyInv, Progress
      <3>2. QED
        BY <1>2, <3>1 DEF ProgressOf, OwnsTarget, HoldsFirst, HoldsAll, HoldsKey, Kept, Target, Files
    <2>3. Progress'
      BY <2>2 DEF Progress
    <2>4. QED
      BY <2>1, <2>3
  <1>5. ShownKept'
    BY <1>2 DEF KeyInv, ShownKept, HoldsKey, Kept
  <1>6. ASSUME NEW r \in Runs, file[p].key = r
        PROVE  HoldsAll(r)
    <2>1. /\ run[r].command \in DOMAIN Commands
          /\ \E i \in DOMAIN Files(r) : Files(r)[i] = p
      BY <1>2, <1>6 DEF KeyInv, Owned, Kept
    <2>2. Files(r) = <<p>>
      BY <1>1, <2>1, PathsAssumption DEF Files
    <2>3. QED
      BY <1>2, <1>6, <2>2 DEF HoldsAll, HoldsKey
  <1>7. AllFilesKept'
    <2>1. SUFFICES ASSUME NEW r \in Runs, NEW q \in Paths, <<q, r>> \in shown'
                   PROVE  HoldsAll(r)
      BY <1>2 DEF AllFilesKept, HoldsAll, HoldsKey, Files, Kept
    <2>2. QED
      BY <2>1, <1>2, <1>6 DEF KeyInv, AllFilesKept, HoldsAll, HoldsKey, Files
  <1>8. QED
    BY <1>3, <1>4, <1>5, <1>7 DEF KeyInv

(* The steps that write the file a run is at, which is new or the run's own. *)
LEMMA OwnFileWritten ==
  ASSUME KeyInv, NEW r \in Runs, Working(r), NEW f, NEW x,
         f \in [key : {r}, text : 0..3, shared : BOOLEAN],
         file' = Written(Target(r), f),
         \/ Target(r) \notin DOMAIN file
         \/ file[Target(r)].key = r /\ file[Target(r)].text <= f.text,
         x \in [at : Steps, command : {run[r].command}, next : Nat],
         x.at # "start",
         x.at \in {"create", "write", "show"} => x.next \in DOMAIN Files(r),
         run' = [run EXCEPT ![r] = x],
         x.at = "write" => x.next = run[r].next,
         x.at \in {"create", "write"} => \A i \in 1..x.next - 1 : HoldsKey(Files(r)[i], r)',
         x.at = "show" => \A i \in DOMAIN Files(r) : HoldsKey(Files(r)[i], r)',
         UNCHANGED shown
  PROVE  KeyInv'
  <1>1. /\ run[r].command \in DOMAIN Commands /\ run[r].next \in DOMAIN Files(r)
        /\ Target(r) \in Paths /\ r \in Keys
        /\ run[r] \in [at : Steps, command : DOMAIN Commands \cup {"none"}, next : Nat]
    BY Typed DEF KeyInv, Keys
  <1>2. f \in [key : Keys, text : 0..3, shared : BOOLEAN]
    BY <1>1
  <1>3. /\ DOMAIN file' = DOMAIN file \cup {Target(r)}
        /\ file'[Target(r)] = f
        /\ \A q \in DOMAIN file \ {Target(r)} : file'[q] = file[q]
        /\ \E S \in SUBSET Paths :
             file' \in [S -> [key : Keys, text : 0..3, shared : BOOLEAN]]
    BY <1>1, <1>2, FileTyped DEF KeyInv
  <1>4. KeysStay
    <2>1. SUFFICES ASSUME NEW p \in Paths, NEW k \in Keys, HoldsKey(p, k)
                   PROVE  HoldsKey(p, k)'
      BY DEF KeysStay
    <2>2. CASE p # Target(r)
      BY <2>1, <2>2, <1>3 DEF HoldsKey, Kept
    <2>3. CASE p = Target(r)
      <3>1. k = r /\ file[p].text >= Whole /\ file[p].text <= f.text
        BY <2>1, <2>3 DEF HoldsKey, Kept
      <3>2. f.text >= Whole
        <4>1. file[p].text \in Int /\ f.text \in Int /\ Whole \in Int
          BY <2>1, Typed DEF KeyInv, HoldsKey, Kept, Whole
        <4>2. QED
          BY <3>1, <4>1
      <3>3. QED
        BY <3>1, <3>2, <1>3, <2>3 DEF HoldsKey, Kept
    <2>4. QED
      BY <2>2, <2>3
  <1>5. /\ \A q \in Runs \ {r} : run'[q] = run[q]
        /\ run'[r] = x /\ x.command = run[r].command
    BY DEF KeyInv, KeyTypeOK
  <1>6. Files(r)' = Files(r)
    BY <1>5 DEF Files
  <1>7. KeyTypeOK'
    <2>1. /\ run' \in [Runs -> [at : Steps, command : DOMAIN Commands \cup {"none"},
                                next : Nat]]
          /\ \A q \in Runs :
               run'[q].at \in {"create", "write", "show"} =>
                 /\ run'[q].command \in DOMAIN Commands
                 /\ run'[q].next \in DOMAIN Commands[run'[q].command]
      BY <1>1, <1>5, RunTyped DEF KeyInv, Files
    <2>2. QED
      BY <2>1, <1>3 DEF KeyInv, KeyTypeOK
  <1>8. Owned'
    <2>1. SUFFICES ASSUME NEW p \in DOMAIN file', NEW q \in Runs, file'[p].key = q
                   PROVE  /\ run'[q].at # "start" /\ run'[q].command \in DOMAIN Commands
                          /\ \E i \in DOMAIN Files(q)' : Files(q)'[i] = p
      BY DEF Owned
    <2>2. CASE p = Target(r)
      <3>1. q = r
        BY <2>1, <2>2, <1>3
      <3>2. QED
        BY <2>2, <3>1, <1>1, <1>5, <1>6 DEF Target, Files
    <2>3. CASE p # Target(r)
      <3>1. p \in DOMAIN file /\ file[p].key = q
        BY <2>1, <2>3, <1>3
      <3>2. /\ run[q].at # "start" /\ run[q].command \in DOMAIN Commands
            /\ \E i \in DOMAIN Files(q) : Files(q)[i] = p
        BY <3>1 DEF KeyInv, Owned
      <3>3. run'[q].at # "start" /\ run'[q].command = run[q].command
        BY <1>5, <3>2
      <3>4. QED
        BY <3>2, <3>3 DEF Files
    <2>4. QED
      BY <2>2, <2>3
  <1>9. ASSUME NEW q \in Runs PROVE ProgressOf(q)'
    <2>1. CASE q = r
      <3>1. x.at = "write" => OwnsTarget(r)'
        BY <1>3, <1>5 DEF OwnsTarget, Target
      <3>2. x.at \in {"create", "write"} => HoldsFirst(r)'
        BY <1>5, <1>6 DEF HoldsFirst, HoldsKey
      <3>3. x.at = "show" => HoldsAll(r)'
        BY <1>6 DEF HoldsAll, HoldsKey
      <3>4. QED
        BY <2>1, <3>1, <3>2, <3>3, <1>5 DEF ProgressOf
    <2>2. CASE q # r
      <3>1. run[q].at = "write" => Target(q) \in DOMAIN file' /\ file'[Target(q)].key = q
        <4>1. SUFFICES ASSUME run[q].at = "write"
                       PROVE  Target(q) \in DOMAIN file' /\ file'[Target(q)].key = q
          OBVIOUS
        <4>2. Target(q) \in DOMAIN file /\ file[Target(q)].key = q
          BY <4>1 DEF KeyInv, Progress, ProgressOf, OwnsTarget
        <4>3. Target(q) # Target(r)
          BY <4>2, <2>2
        <4>4. QED
          BY <4>2, <4>3, <1>3
      <3>2. QED
        BY <2>2, <3>1, <1>4, <1>5, OthersProgress
    <2>3. QED
      BY <2>1, <2>2
  <1>10. ShownKept'
    BY <1>4, <1>5, PrintedStays DEF ShownKept
  <1>11. AllFilesKept'
    BY <1>4, <1>5, PrintedStays DEF AllFilesKept, HoldsAll, HoldsKey, Files
  <1>12. QED
    BY <1>7, <1>8, <1>9, <1>10, <1>11 DEF KeyInv, Progress

LEMMA CreateKeeps ==
  ASSUME KeyInv, NEW r \in Runs, Create(r)
  PROVE  KeyInv'
  <1> DEFINE f == [key |-> r, text |-> 0, shared |-> FALSE]
             x == [run[r] EXCEPT !.at = "write"]
  <1>1. /\ run[r].at = "create" /\ Target(r) \notin DOMAIN file
        /\ file' = Written(Target(r), f) /\ run' = [run EXCEPT ![r] = x]
        /\ UNCHANGED shown
    BY DEF Create, To
  <1>2. /\ run[r] \in [at : Steps, command : DOMAIN Commands \cup {"none"}, next : Nat]
        /\ run[r].command \in DOMAIN Commands /\ run[r].next \in DOMAIN Files(r)
        /\ Target(r) \in Paths /\ r \in Keys
    BY <1>1, Typed DEF KeyInv, Working, Keys
  <1>3. /\ x \in [at : Steps, command : {run[r].command}, next : Nat]
        /\ x.at = "write" /\ x.next = run[r].next
    BY <1>2 DEF Steps
  <1>4. f \in [key : {r}, text : 0..3, shared : BOOLEAN]
    OBVIOUS
  <1>5. \A i \in 1..run[r].next - 1 : HoldsKey(Files(r)[i], r)'
    <2>1. SUFFICES ASSUME NEW i \in 1..run[r].next - 1
                   PROVE  HoldsKey(Files(r)[i], r)'
      OBVIOUS
    <2>2. HoldsKey(Files(r)[i], r)
      BY <1>1 DEF KeyInv, Progress, ProgressOf, HoldsFirst
    <2>3. Files(r)' = Files(r)
      BY <1>1 DEF Files, KeyInv, KeyTypeOK
    <2>4. \A q \in DOMAIN file : q \in DOMAIN file' /\ file'[q] = file[q]
      BY <1>1 DEF Written
    <2>5. QED
      BY <2>2, <2>3, <2>4 DEF HoldsKey, Kept
  <1> HIDE DEF f, x
  <1>6. QED
    BY <1>1, <1>2, <1>3, <1>4, <1>5, OwnFileWritten DEF Working

LEMMA WriteKeeps ==
  ASSUME KeyInv, NEW r \in Runs, NEW n \in 1..3, Write(r, n)
  PROVE  KeyInv'
  <1> DEFINE f == [file[Target(r)] EXCEPT !.text = n]
             x == IF n < 3 THEN run[r] ELSE Onward(run[r])
  <1>1. /\ run[r].at = "write" /\ file[Target(r)].text < n
        /\ file' = Written(Target(r), f) /\ run' = [run EXCEPT ![r] = x]
        /\ UNCHANGED shown
    BY DEF Write, Files
  <1>2. /\ run[r] \in [at : Steps, command : DOMAIN Commands \cup {"none"}, next : Nat]
        /\ run[r].command \in DOMAIN Commands /\ run[r].next \in DOMAIN Files(r)
        /\ Target(r) \in Paths
    BY <1>1, Typed DEF KeyInv, Working
  <1>3. /\ Target(r) \in DOMAIN file /\ file[Target(r)].key = r
        /\ file[Target(r)] \in [key : Keys, text : 0..3, shared : BOOLEAN]
    BY <1>1, Typed DEF KeyInv, Progress, ProgressOf, OwnsTarget
  <1>4. Len(Files(r)) \in Nat \ {0} /\ DOMAIN Files(r) = 1..Len(Files(r))
    BY <1>2, FilesAreSequences DEF Files
  <1>5. /\ f \in [key : {r}, text : 0..3, shared : BOOLEAN]
        /\ f.text = n /\ file[Target(r)].text <= f.text
    BY <1>1, <1>3
  <1>6. /\ x \in [at : Steps, command : {run[r].command}, next : Nat]
        /\ x.at \in {"create", "write", "show"}
        /\ x.at = "write" => x.next = run[r].next
        /\ x.next \in DOMAIN Files(r)
    <2>1. CASE n < 3
      BY <1>1, <1>2, <2>1
    <2>2. CASE n >= 3 /\ run[r].next < Len(Files(r))
      <3>1. x = [run[r] EXCEPT !.at = "create", !.next = run[r].next + 1]
        BY <2>2 DEF Onward, Files
      <3>2. run[r].next + 1 \in 1..Len(Files(r))
        BY <2>2, <1>2, <1>4
      <3>3. /\ x.at = "create" /\ x.next = run[r].next + 1
            /\ x.command = run[r].command
        BY <3>1, <1>2
      <3>4. x \in [at : Steps, command : {run[r].command}, next : Nat]
        <4>1. run[r].next + 1 \in Nat
          BY <1>2
        <4>2. QED
          BY <3>1, <4>1, <1>2 DEF Steps
      <3>5. QED
        BY <3>2, <3>3, <3>4, <1>4
    <2>3. CASE n >= 3 /\ ~(run[r].next < Len(Files(r)))
      <3>1. x = [run[r] EXCEPT !.at = "show"]
        BY <2>3 DEF Onward, Files
      <3>2. QED
        BY <3>1, <1>2 DEF Steps
    <2>4. QED
      BY <2>1, <2>2, <2>3
  <1>7. Files(r)' = Files(r)
    BY <1>1, <1>6 DEF Files, KeyInv, KeyTypeOK
  <1>8. \A q \in DOMAIN file : /\ q \in DOMAIN file'
                               /\ q # Target(r) => file'[q] = file[q]
                               /\ q = Target(r) => file'[q] = f
    BY <1>1 DEF Written
  <1>9. \A q : HoldsKey(q, r) => q \in DOMAIN file' /\ file'[q].key = r /\ file'[q].text >= Whole
    <2>1. SUFFICES ASSUME NEW q, HoldsKey(q, r)
                   PROVE  q \in DOMAIN file' /\ file'[q].key = r /\ file'[q].text >= Whole
      OBVIOUS
    <2>2. q \in DOMAIN file /\ file[q].key = r /\ file[q].text >= Whole
      BY <2>1 DEF HoldsKey, Kept
    <2>3. CASE q = Target(r)
      BY <2>2, <2>3, <1>3, <1>5, <1>8 DEF Whole
    <2>4. CASE q # Target(r)
      BY <2>2, <2>4, <1>8
    <2>5. QED
      BY <2>3, <2>4
  <1>10. n = 3 => Target(r) \in DOMAIN file' /\ file'[Target(r)].key = r
                     /\ file'[Target(r)].text >= Whole
    BY <1>3, <1>5, <1>8 DEF Whole
  <1>11. HoldsFirst(r)
    BY <1>1 DEF KeyInv, Progress, ProgressOf
  <1>12. ASSUME NEW i \in DOMAIN Files(r), i < run[r].next \/ (n = 3 /\ i = run[r].next)
         PROVE  HoldsKey(Files(r)[i], r)'
    <2>1. CASE i < run[r].next
      <3>1. i \in 1..run[r].next - 1
        BY <2>1, <1>2, <1>4
      <3>2. HoldsKey(Files(r)[i], r)
        BY <3>1, <1>11 DEF HoldsFirst
      <3>3. QED
        BY <3>2, <1>7, <1>9 DEF HoldsKey, Kept
    <2>2. CASE n = 3 /\ i = run[r].next
      <3>1. Files(r)[i] = Target(r)
        BY <2>2 DEF Files, Target
      <3>2. QED
        BY <2>2, <3>1, <1>7, <1>10 DEF HoldsKey, Kept
    <2>3. QED
      BY <1>12, <2>1, <2>2
  <1>13. x.at \in {"create", "write"} => \A i \in 1..x.next - 1 : HoldsKey(Files(r)[i], r)'
    <2>1. SUFFICES ASSUME x.at \in {"create", "write"}, NEW i \in 1..x.next - 1
                   PROVE  HoldsKey(Files(r)[i], r)'
      OBVIOUS
    <2>2. i \in DOMAIN Files(r) /\ (i < run[r].next \/ (n = 3 /\ i = run[r].next))
      BY <2>1, <1>1, <1>2, <1>4 DEF Onward, Files
    <2>3. QED
      BY <2>2, <1>12
  <1>14. x.at = "show" => \A i \in DOMAIN Files(r) : HoldsKey(Files(r)[i], r)'
    <2>1. SUFFICES ASSUME x.at = "show", NEW i \in DOMAIN Files(r)
                   PROVE  HoldsKey(Files(r)[i], r)'
      OBVIOUS
    <2>2. n = 3 /\ run[r].next = Len(Files(r))
      BY <2>1, <1>1, <1>2, <1>4 DEF Onward, Files
    <2>3. i < run[r].next \/ (n = 3 /\ i = run[r].next)
      BY <2>2, <1>4
    <2>4. QED
      BY <2>3, <1>12
  <1> HIDE DEF f, x
  <1>15. QED
    BY <1>1, <1>2, <1>3, <1>5, <1>6, <1>13, <1>14, OwnFileWritten DEF Working

-----------------------------------------------------------------------------
(* Every step of every run keeps the invariant. *)
LEMMA StepKeeps == KeyInv /\ [KeyNext]_keyVars => KeyInv'
  <1> SUFFICES ASSUME KeyInv, [KeyNext]_keyVars PROVE KeyInv'
    OBVIOUS
  <1>1. ASSUME NEW r \in Runs, NEW c \in DOMAIN Commands, Begin(r, c)
        PROVE  KeyInv'
    BY <1>1, BeginKeeps
  <1>2. ASSUME NEW r \in Runs, NEW c \in DOMAIN Commands, RefuseToReplace(r, c)
        PROVE  KeyInv'
    BY <1>2, EndKeeps DEF RefuseToReplace
  <1>3. ASSUME NEW r \in Runs, Create(r)
        PROVE  KeyInv'
    BY <1>3, CreateKeeps
  <1>4. ASSUME NEW r \in Runs, AlreadyThere(r)
        PROVE  KeyInv'
    BY <1>4, EndKeeps DEF AlreadyThere
  <1>5. ASSUME NEW r \in Runs, Show(r)
        PROVE  KeyInv'
    BY <1>5, EndKeeps DEF Show
  <1>6. ASSUME NEW r \in Runs, Die(r)
        PROVE  KeyInv'
    BY <1>6, EndKeeps DEF Die
  <1>7. ASSUME NEW r \in Runs, NEW n \in 1..3, Write(r, n)
        PROVE  KeyInv'
    BY <1>7, WriteKeeps
  <1>8. ASSUME NEW p \in Paths, ReadBack(p)
        PROVE  KeyInv'
    BY <1>8, ReadBackKeeps
  <1>9. CASE UNCHANGED keyVars
    <2>1. UNCHANGED <<file, run, shown>>
      BY <1>9 DEF keyVars
    <2>2. (KeyTypeOK /\ Owned)'
      BY <2>1 DEF KeyInv, KeyTypeOK, Owned, Files
    <2>3. \A r \in Runs : ProgressOf(r)'
      <3> TAKE r \in Runs
      <3>1. ProgressOf(r)
        BY DEF KeyInv, Progress
      <3>2. QED
        BY <2>1, <3>1 DEF ProgressOf, OwnsTarget, HoldsFirst, HoldsAll, HoldsKey, Kept, Target, Files
    <2>4. Progress'
      BY <2>3 DEF Progress
    <2>5. ShownKept'
      BY <2>1 DEF KeyInv, ShownKept, HoldsKey, Kept
    <2>6. AllFilesKept'
      BY <2>1 DEF KeyInv, AllFilesKept, Kept, Files
    <2>7. QED
      BY <2>2, <2>4, <2>5, <2>6 DEF KeyInv
  <1>10. QED
    BY <1>1, <1>2, <1>3, <1>4, <1>5, <1>6, <1>7, <1>8, <1>9 DEF KeyNext

(* The invariant: a file under way is its run's own, those before it hold the
   run's key, and so does every file an address was printed of (key.rs:25-44,
   stamper.rs:66-77). *)
THEOREM KeyInvariance == KeySpec => []KeyInv
  <1>1. KeyInit => KeyInv
    BY Start
  <1>2. KeyInv /\ [KeyNext]_keyVars => KeyInv'
    BY StepKeeps
  <1>3. QED
    BY <1>1, <1>2, PTL DEF KeySpec

(* The files, the runs and what was printed keep their types. *)
THEOREM TypesKept == KeySpec => []KeyTypeOK
  <1>1. KeyInv => KeyTypeOK
    BY DEF KeyInv
  <1>2. QED
    BY <1>1, KeyInvariance, PTL

(* When the address of a new key is out, all the files of its command hold the
   key, whatever other runs do and wherever runs die (stamp-proof.rs:129-152). *)
THEOREM NoneMissing == KeySpec => []AllFilesKept
  <1>1. KeyInv => AllFilesKept
    BY DEF KeyInv
  <1>2. QED
    BY <1>1, KeyInvariance, PTL

-----------------------------------------------------------------------------
(* The promise.  What it sees of the files is the keys they hold. *)
KeyOf == [p \in Kept |-> file[p].key]

(* Keys held before a step and after it are the same ones, and the whole
   function is unchanged if no file comes to hold one. *)
LEMMA SameKeys ==
  ASSUME UNCHANGED file
  PROVE  KeyOf' = KeyOf
  BY DEF KeyOf, Kept

LEMMA InitPromises == KeyInit => Promise!Init
  <1> SUFFICES ASSUME KeyInit PROVE Promise!Init
    OBVIOUS
  <1>1. PICK S \in SUBSET Paths :
          file \in [S -> [key : {Old}, text : 0..3, shared : BOOLEAN]]
    BY DEF KeyInit
  <1>2. Kept \in SUBSET Paths
    BY <1>1 DEF Kept
  <1>3. KeyOf \in [Kept -> Keys]
    BY <1>1 DEF KeyOf, Kept, Keys
  <1>4. shown = {}
    BY DEF KeyInit
  <1>5. QED
    BY <1>2, <1>3, <1>4 DEF Promise!Init, KeyOf

LEMMA ShowPromises ==
  ASSUME KeyInv, NEW p \in Paths, NEW k, HoldsKey(p, k), UNCHANGED file,
         shown' = shown \cup {<<p, k>>}
  PROVE  Promise!Next
  <1>1. p \in Kept /\ KeyOf[p] = k /\ DOMAIN KeyOf = Kept
    BY DEF HoldsKey, KeyOf
  <1>2. Promise!Show(p)
    BY <1>1, SameKeys DEF Promise!Show, KeyOf
  <1>3. QED
    BY <1>2 DEF Promise!Next

LEMMA CreatePromises ==
  ASSUME KeyInv, NEW r \in Runs, Create(r)
  PROVE  UNCHANGED <<KeyOf, shown>>
  <1>1. /\ Target(r) \notin DOMAIN file
        /\ file' = Written(Target(r), [key |-> r, text |-> 0, shared |-> FALSE])
        /\ UNCHANGED shown
    BY DEF Create
  <1>2. /\ DOMAIN file' = DOMAIN file \cup {Target(r)}
        /\ \A q \in DOMAIN file : file'[q] = file[q]
        /\ file'[Target(r)].text = 0
    BY <1>1 DEF Written
  <1>3. Kept' = Kept
    BY <1>2 DEF Kept, Whole
  <1>4. \A q \in Kept : file'[q].key = file[q].key
    BY <1>2 DEF Kept
  <1>5. QED
    BY <1>1, <1>3, <1>4 DEF KeyOf

LEMMA WritePromises ==
  ASSUME KeyInv, NEW r \in Runs, NEW n \in 1..3, Write(r, n)
  PROVE  Promise!Next \/ UNCHANGED <<KeyOf, shown>>
  <1> DEFINE p == Target(r)
  <1>1. /\ run[r].at = "write" /\ file[p].text < n
        /\ file' = Written(p, [file[p] EXCEPT !.text = n]) /\ UNCHANGED shown
    BY DEF Write
  <1>2. /\ p \in Paths /\ p \in DOMAIN file /\ file[p].key = r
        /\ file[p] \in [key : Keys, text : 0..3, shared : BOOLEAN]
    BY <1>1, Typed DEF KeyInv, Progress, ProgressOf, OwnsTarget, Working
  <1>3. /\ DOMAIN file' = DOMAIN file
        /\ \A q \in DOMAIN file \ {p} : file'[q] = file[q]
        /\ file'[p].key = r /\ file'[p].text = n
    BY <1>1, <1>2 DEF Written
  <1> HIDE DEF p
  <1>4. CASE n < Whole \/ file[p].text >= Whole
    <2>1. n >= Whole <=> file[p].text >= Whole
      BY <1>1, <1>2, <1>4 DEF Whole
    <2>2. Kept' = Kept
      BY <1>3, <2>1 DEF Kept
    <2>3. \A q \in Kept : file'[q].key = file[q].key
      BY <1>2, <1>3 DEF Kept
    <2>4. QED
      BY <1>1, <2>2, <2>3 DEF KeyOf
  <1>5. CASE n >= Whole /\ ~(file[p].text >= Whole)
    <2>1. p \notin Kept
      BY <1>5 DEF Kept
    <2>2. Kept' = Kept \cup {p}
      BY <1>2, <1>3, <1>5 DEF Kept
    <2>3. \A q \in Kept : file'[q].key = file[q].key
      BY <1>3, <2>1 DEF Kept
    <2>4. KeyOf' = [x \in Kept \cup {p} |-> IF x = p THEN r ELSE KeyOf[x]]
      BY <1>3, <2>1, <2>2, <2>3 DEF KeyOf
    <2>5. DOMAIN KeyOf = Kept
      BY DEF KeyOf
    <2>6. Promise!Keep(p, r)
      BY <1>1, <2>1, <2>4, <2>5 DEF Promise!Keep, KeyOf
    <2>7. QED
      BY <1>2, <2>6 DEF Promise!Next, Keys
  <1>6. QED
    BY <1>1, <1>2, <1>4, <1>5 DEF Whole

LEMMA StepPromises == KeyInv /\ [KeyNext]_keyVars => [Promise!Next]_<<KeyOf, shown>>
  <1> SUFFICES ASSUME KeyInv, [KeyNext]_keyVars
               PROVE  Promise!Next \/ UNCHANGED <<KeyOf, shown>>
    OBVIOUS
  <1>1. ASSUME UNCHANGED <<file, shown>>
        PROVE  UNCHANGED <<KeyOf, shown>>
    BY <1>1, SameKeys
  <1>2. ASSUME NEW r \in Runs, Show(r)
        PROVE  Promise!Next
    <2>1. /\ run[r].command \in DOMAIN Commands /\ HoldsAll(r)
      BY <1>2, Typed DEF Show, KeyInv, Working, Progress, ProgressOf
    <2>2. Files(r)[1] \in Paths /\ HoldsKey(Files(r)[1], r)
      BY <2>1, FilesAreSequences DEF Files, HoldsAll
    <2>3. QED
      BY <1>2, <2>2, ShowPromises DEF Show, Files
  <1>3. ASSUME NEW p \in Paths, ReadBack(p)
        PROVE  Promise!Next
    BY <1>3, ShowPromises DEF ReadBack, Loads, HoldsKey, Kept
  <1>4. QED
    BY <1>1, <1>2, <1>3, CreatePromises, WritePromises
    DEF KeyNext, keyVars, Begin, RefuseToReplace, AlreadyThere, Die

(* The files keep the promise of KeyPromise: a key that a file holds is never
   replaced, and no address is printed of a key that is not in its file, for
   any number of overlapping, killed and repeated runs (key.rs:25-44). *)
THEOREM Refinement == KeySpec => KeepsKeys
  <1>1. KeyInit => Promise!Init
    BY InitPromises
  <1>2. KeyInv /\ [KeyNext]_keyVars => [Promise!Next]_<<[p \in Kept |-> file[p].key], shown>>
    BY StepPromises DEF KeyOf
  <1>3. QED
    BY <1>1, <1>2, KeyInvariance, PTL DEF KeySpec, KeepsKeys, Promise!Spec
-----------------------------------------------------------------------------
(* The arithmetic of build, alone: theorems of Build.                       *)

(* Amounts below the word are themselves. *)
LEMMA Unwrapped ==
  ASSUME NEW x \in Nat, x < Word
  PROVE  x % Word = x
  BY BuildAssumption

LEMMA CeilNat ==
  ASSUME NEW a \in Nat, NEW b \in Nat \ {0}
  PROVE  CeilDiv(a, b) \in Nat
  BY DEF CeilDiv

(* One more standard output is one more action, or none. *)
LEMMA CeilStep ==
  ASSUME NEW a \in Nat, NEW b \in Nat \ {0}
  PROVE  CeilDiv(a, b) <= CeilDiv(a + b, b)
  <1>1. (a + b - 1) \div b \in Int /\ (a + b + b - 1) \div b \in Int
    OBVIOUS
  <1>2. (a + b + b - 1) \div b = (a + b - 1) \div b + 1
    OBVIOUS
  <1>3. QED
    BY <1>1, <1>2 DEF CeilDiv

LEMMA Times ==
  ASSUME NEW m \in Nat, NEW a \in Nat, NEW b \in Nat, a <= b
  PROVE  m * a \in Nat /\ m * b \in Nat /\ m * a <= m * b /\ m * (b - a) = m * b - m * a
  <1>1. PICK k \in Nat : b = a + k
    <2>1. b - a \in Nat /\ b = a + (b - a)
      OBVIOUS
    <2>2. QED
      BY <2>1
  <1>2. m * (a + k) = m * a + m * k /\ m * a \in Nat /\ m * k \in Nat
    OBVIOUS
  <1>3. b - a = k
    BY <1>1
  <1>4. QED
    BY <1>1, <1>2, <1>3

-----------------------------------------------------------------------------
(* The quantities of a request r: its actions and fees with a change output
   and without one. *)
ActionsWith(r) == Actions(Len(r.inputs), r.bytes + OutputSize)
ActionsWithout(r) == Actions(Len(r.inputs), r.bytes)

LEMMA ChangeCosts ==
  ASSUME NEW r \in Inputs
  PROVE  /\ ActionsWith(r) \in Nat /\ ActionsWithout(r) \in Nat
         /\ ActionsWithout(r) <= ActionsWith(r)
  <1>1. Len(r.inputs) \in Nat /\ r.bytes \in Nat /\ OutputSize \in Nat \ {0}
        /\ GraceActions \in Nat
    BY BuildAssumption
  <1>2. /\ CeilDiv(r.bytes, OutputSize) \in Nat
        /\ CeilDiv(r.bytes + OutputSize, OutputSize) \in Nat
        /\ CeilDiv(r.bytes, OutputSize) <= CeilDiv(r.bytes + OutputSize, OutputSize)
    <2>1. r.bytes + OutputSize \in Nat
      BY <1>1
    <2>2. CeilDiv(r.bytes, OutputSize) \in Nat
      BY <1>1, CeilNat
    <2>3. CeilDiv(r.bytes + OutputSize, OutputSize) \in Nat
      BY <1>1, <2>1, CeilNat
    <2>4. CeilDiv(r.bytes, OutputSize) <= CeilDiv(r.bytes + OutputSize, OutputSize)
      BY <1>1, CeilStep
    <2>5. QED
      BY <2>2, <2>3, <2>4
  <1>3. QED
    BY <1>1, <1>2 DEF ActionsWith, ActionsWithout, Actions, AtLeast

(* Where everything fits, the wrapping arithmetic of the code is arithmetic. *)
LEMMA FitsExact ==
  ASSUME NEW r \in Inputs, Fits(r)
  PROVE  /\ In(r) = r.totalIn /\ Out(r) = r.totalOut
         /\ FeeWith(r) = r.marginal * ActionsWith(r)
         /\ FeeWithout(r) = r.marginal * ActionsWithout(r)
         /\ FeeWith(r) \in Nat /\ FeeWithout(r) \in Nat
         /\ FeeWithout(r) <= FeeWith(r)
         /\ r.marginal * (ActionsWith(r) - ActionsWithout(r))
              = FeeWith(r) - FeeWithout(r)
         /\ Left(r, FeeWith(r)) = r.totalIn - r.totalOut - FeeWith(r)
         /\ Left(r, FeeWithout(r)) = r.totalIn - r.totalOut - FeeWithout(r)
  <1>1. /\ r.totalIn \in Nat /\ r.totalOut \in Nat /\ r.marginal \in Nat
        /\ Word \in Nat
    BY BuildAssumption
  <1>2. /\ r.totalIn < Word
        /\ r.totalOut + r.marginal * ActionsWith(r) < Word
    BY DEF Fits, ActionsWith
  <1> DEFINE w == r.marginal * ActionsWith(r)
             v == r.marginal * ActionsWithout(r)
  <1>3. /\ v \in Nat /\ w \in Nat /\ v <= w
        /\ r.marginal * (ActionsWith(r) - ActionsWithout(r)) = w - v
    BY <1>1, ChangeCosts, Times
  <1> HIDE DEF w, v
  <1>4. r.totalOut + w < Word
    BY <1>2 DEF w
  <1>5. w < Word /\ v < Word /\ r.totalOut < Word /\ r.totalOut + v < Word
    BY <1>1, <1>3, <1>4
  <1>6. FeeWith(r) = w /\ FeeWithout(r) = v
    <2>1. FeeWith(r) = w % Word /\ FeeWithout(r) = v % Word
      BY DEF FeeWith, FeeWithout, Fee, ActionsWith, ActionsWithout, w, v
    <2>2. QED
      BY <1>3, <1>5, <2>1, Unwrapped
  <1>7. In(r) = r.totalIn /\ Out(r) = r.totalOut
    BY <1>1, <1>2, <1>5, Unwrapped DEF In, Out
  <1>8. /\ (r.totalOut + w) % Word = r.totalOut + w
        /\ (r.totalOut + v) % Word = r.totalOut + v
    <2>1. r.totalOut + w \in Nat /\ r.totalOut + v \in Nat
      BY <1>1, <1>3
    <2>2. (r.totalOut + w) % Word = r.totalOut + w
      BY <1>4, <2>1, Unwrapped
    <2>3. (r.totalOut + v) % Word = r.totalOut + v
      BY <1>5, <2>1, Unwrapped
    <2>4. QED
      BY <2>2, <2>3
  <1>9. /\ Left(r, FeeWith(r)) = r.totalIn - r.totalOut - w
        /\ Left(r, FeeWithout(r)) = r.totalIn - r.totalOut - v
    BY <1>1, <1>3, <1>6, <1>7, <1>8 DEF Left
  <1>10. FeeWith(r) = r.marginal * ActionsWith(r)
         /\ FeeWithout(r) = r.marginal * ActionsWithout(r)
    BY <1>6 DEF w, v
  <1>11. QED
    BY <1>3, <1>6, <1>7, <1>9, <1>10

-----------------------------------------------------------------------------
(* Which way the tool went, and that it had reason to. *)
BuildInv ==
  /\ request \in Inputs
  /\ \/ result \in {None, [error |-> "refused"]}
     \/ result = [error |-> "not covered"] /\ Left(request, FeeWithout(request)) < 0
     \/ result = WithChange(request) /\ Changes(request)
     \/ /\ result = WithoutChange(request)
        /\ ~Changes(request)
        /\ Left(request, FeeWithout(request)) >= 0

LEMMA InitInv == Init => BuildInv
  BY DEF Init, BuildInv

LEMMA NextInv == BuildInv /\ [Next]_vars => BuildInv'
  <1> SUFFICES ASSUME BuildInv, [Next]_vars PROVE BuildInv'
    OBVIOUS
  <1>1. request' = request
    BY DEF Next, Refuse, NotCovered, MakeWithChange, MakeWithout, Fail, vars
  <1>2. CASE Refuse
    BY <1>1, <1>2 DEF Refuse, Fail, BuildInv
  <1>3. CASE NotCovered
    BY <1>1, <1>3 DEF NotCovered, Fail, BuildInv
  <1>4. CASE MakeWithChange
    BY <1>1, <1>4 DEF MakeWithChange, BuildInv
  <1>5. CASE MakeWithout
    BY <1>1, <1>5 DEF MakeWithout, BuildInv
  <1>6. CASE UNCHANGED vars
    BY <1>6 DEF vars, BuildInv
  <1>7. QED
    BY <1>2, <1>3, <1>4, <1>5, <1>6 DEF Next

(* Whatever build returns is the outcome of its checks and its arithmetic on
   the request (build.rs:75-125). *)
THEOREM BuildInvariance == Spec => []BuildInv
  BY InitInv, NextInv, PTL DEF Spec

(* What a built transaction is, in plain arithmetic, where everything fits. *)
LEMMA BuiltIs ==
  ASSUME BuildInv, Built, Fits(request)
  PROVE  LET r == request
             paid == r.totalOut + result.change + result.fee
         IN  /\ paid = r.totalIn
             /\ \/ /\ result.change >= Dust /\ result.change \in Nat
                   /\ result.actions = ActionsWith(r)
                   /\ result.fee = r.marginal * ActionsWith(r)
                \/ /\ result.change = 0
                   /\ result.actions = ActionsWithout(r)
                   /\ result.fee >= r.marginal * ActionsWithout(r)
                   /\ result.fee < Dust + r.marginal * ActionsWith(r)
  <1> DEFINE r == request
  <1>1. /\ r \in Inputs /\ r.totalIn \in Nat /\ r.totalOut \in Nat
        /\ Word \in Nat /\ Dust \in Nat \ {0} /\ r.totalIn < Word
    BY BuildAssumption DEF BuildInv, Fits
  <1>2. result # None /\ "fee" \in DOMAIN result
    BY DEF Built
  <1>3. \/ result = WithChange(r) /\ Changes(r)
        \/ /\ result = WithoutChange(r) /\ ~Changes(r)
           /\ Left(r, FeeWithout(r)) >= 0
    <2>1. /\ "fee" \notin DOMAIN [error |-> "refused"]
          /\ "fee" \notin DOMAIN [error |-> "not covered"]
      OBVIOUS
    <2>2. result # [error |-> "refused"] /\ result # [error |-> "not covered"]
      BY <1>2, <2>1, Zenon
    <2>3. QED
      BY <1>2, <2>2 DEF BuildInv
  <1>4. CASE result = WithChange(r) /\ Changes(r)
    <2>1. /\ result.fee = FeeWith(r) /\ result.change = Left(r, FeeWith(r))
          /\ result.actions = ActionsWith(r) /\ result.change >= Dust
      BY <1>4 DEF WithChange, Changes, ActionsWith
    <2>2. QED
      BY <1>1, <2>1, FitsExact
  <1>5. CASE /\ result = WithoutChange(r) /\ ~Changes(r)
             /\ Left(r, FeeWithout(r)) >= 0
    <2> DEFINE spent == FeeWithout(r) + Left(r, FeeWithout(r))
    <2>1. /\ result.fee = spent % Word /\ result.change = 0
          /\ result.actions = ActionsWithout(r)
      BY <1>5 DEF WithoutChange, ActionsWithout
    <2>2. /\ FeeWith(r) \in Nat /\ FeeWithout(r) \in Nat
          /\ Left(r, FeeWith(r)) = r.totalIn - r.totalOut - FeeWith(r)
          /\ Left(r, FeeWithout(r)) = r.totalIn - r.totalOut - FeeWithout(r)
          /\ FeeWith(r) = r.marginal * ActionsWith(r)
          /\ FeeWithout(r) = r.marginal * ActionsWithout(r)
      BY <1>1, FitsExact
    <2>3. spent = r.totalIn - r.totalOut /\ spent \in Nat /\ spent < Word
      BY <1>1, <1>5, <2>2
    <2>4. ~(Left(r, FeeWith(r)) >= Dust)
      BY <1>5 DEF Changes
    <2>5. spent % Word = spent
      BY <2>3, Unwrapped
    <2>6. result.fee = r.totalIn - r.totalOut
      BY <2>1, <2>3, <2>5
    <2>7. /\ result.fee >= FeeWithout(r)
          /\ result.fee < Dust + FeeWith(r)
      BY <1>1, <1>5, <2>2, <2>4, <2>6
    <2>8. QED
      BY <1>1, <2>1, <2>2, <2>6, <2>7
  <1>6. QED
    BY <1>3, <1>4, <1>5

(* What is built consists of 64-bit amounts, also where the sums wrap. *)
LEMMA Words ==
  ASSUME NEW r \in Inputs
  PROVE  /\ Changes(r) => /\ WithChange(r).fee \in 0..Word - 1
                          /\ WithChange(r).change \in 0..Word - 1
                          /\ WithChange(r).actions \in Nat
         /\ Left(r, FeeWithout(r)) >= 0 => /\ WithoutChange(r).fee \in 0..Word - 1
                                           /\ WithoutChange(r).change \in 0..Word - 1
                                           /\ WithoutChange(r).actions \in Nat
  <1>1. /\ Word \in Nat \ {0} /\ Dust \in Nat \ {0} /\ r.marginal \in Nat
        /\ r.totalIn \in Nat /\ r.totalOut \in Nat
    BY BuildAssumption
  <1>2. \A x \in Int : x % Word \in 0..Word - 1
    BY <1>1
  <1>3. ActionsWith(r) \in Nat /\ ActionsWithout(r) \in Nat
    BY ChangeCosts
  <1>4. r.marginal * ActionsWith(r) \in Nat /\ r.marginal * ActionsWithout(r) \in Nat
    BY <1>1, <1>3, Times
  <1>5. FeeWith(r) \in 0..Word - 1 /\ FeeWithout(r) \in 0..Word - 1
    BY <1>2, <1>4 DEF FeeWith, FeeWithout, Fee, ActionsWith, ActionsWithout
  <1>6. In(r) \in 0..Word - 1 /\ Out(r) \in 0..Word - 1
    BY <1>1, <1>2 DEF In, Out
  <1>7. \A fee \in 0..Word - 1 : (Out(r) + fee) % Word \in 0..Word - 1
    BY <1>1, <1>2, <1>6
  <1>8. \A fee \in 0..Word - 1 : Left(r, fee) \in Int /\ Left(r, fee) <= Word - 1
    BY <1>1, <1>6, <1>7 DEF Left
  <1>9. ASSUME Changes(r)
        PROVE  /\ WithChange(r).fee \in 0..Word - 1
               /\ WithChange(r).change \in 0..Word - 1
               /\ WithChange(r).actions \in Nat
    <2>1. Left(r, FeeWith(r)) \in 0..Word - 1
      BY <1>1, <1>5, <1>8, <1>9 DEF Changes
    <2>2. WithChange(r) = [fee |-> FeeWith(r), change |-> Left(r, FeeWith(r)),
                           actions |-> ActionsWith(r)]
      BY DEF WithChange, ActionsWith
    <2>3. QED
      BY <1>3, <1>5, <2>1, <2>2
  <1>10. ASSUME Left(r, FeeWithout(r)) >= 0
         PROVE  /\ WithoutChange(r).fee \in 0..Word - 1
                /\ WithoutChange(r).change \in 0..Word - 1
                /\ WithoutChange(r).actions \in Nat
    <2>1. (FeeWithout(r) + Left(r, FeeWithout(r))) % Word \in 0..Word - 1
      BY <1>1, <1>2, <1>5, <1>8
    <2>2. WithoutChange(r) = [fee |-> (FeeWithout(r) + Left(r, FeeWithout(r))) % Word,
                              change |-> 0, actions |-> ActionsWithout(r)]
      BY DEF WithoutChange, ActionsWithout
    <2>3. 0 \in 0..Word - 1
      BY <1>1
    <2>4. QED
      BY <1>3, <2>1, <2>2, <2>3
  <1>11. QED
    BY <1>9, <1>10

LEMMA BuildTyped == BuildInv => TypeOK
  <1>1. DOMAIN WithChange(request) = {"fee", "change", "actions"}
        /\ DOMAIN WithoutChange(request) = {"fee", "change", "actions"}
    BY DEF WithChange, WithoutChange
  <1>2. QED
    BY <1>1, Words DEF BuildInv, TypeOK

(* A result is a refusal or consists of 64-bit amounts, for every request,
   whether its sums wrap or not (build.rs:106-125). *)
THEOREM AmountsAreWords == Spec => []TypeOK
  BY BuildTyped, BuildInvariance, PTL

(* The coins spent are the outputs, the change and the fee, for every request
   whose sums fit in 64 bits. *)
THEOREM NothingLost == Spec => []Conserves
  <1>1. BuildInv => Conserves
    BY BuiltIs DEF Conserves
  <1>2. QED
    BY <1>1, BuildInvariance, PTL

(* The fee paid is at least the ZIP 317 fee of the transaction as built. *)
THEOREM FeeIsPaid == Spec => []PaysItsFee
  <1>1. ASSUME BuildInv, Built, Fits(request)
        PROVE  /\ result.actions = Actions(Len(request.inputs), FinalBytes)
               /\ result.fee >= request.marginal * result.actions
    <2>1. Dust \in Nat \ {0} /\ request \in Inputs /\ request.bytes \in Nat
      BY <1>1, BuildAssumption DEF BuildInv
    <2>2. CASE result.change = 0
      <3>1. FinalBytes = request.bytes
        BY <2>1, <2>2 DEF FinalBytes
      <3>2. QED
        BY <1>1, <2>1, <2>2, <3>1, BuiltIs DEF ActionsWithout
    <2>3. CASE result.change # 0
      <3>1. FinalBytes = request.bytes + OutputSize
        BY <2>3 DEF FinalBytes
      <3>2. /\ result.actions = ActionsWith(request)
            /\ result.fee = request.marginal * ActionsWith(request)
        BY <1>1, <2>3, BuiltIs
      <3>3. request.marginal * ActionsWith(request) \in Nat
        BY <2>1, ChangeCosts, Times, BuildAssumption
      <3>4. QED
        BY <3>1, <3>2, <3>3 DEF ActionsWith
    <2>4. QED
      BY <2>2, <2>3
  <1>2. BuildInv => PaysItsFee
    BY <1>1 DEF PaysItsFee
  <1>3. QED
    BY <1>2, BuildInvariance, PTL

(* Change is never dust, and little is given up for want of change. *)
THEOREM LittleLost == Spec => []LittleIsLost
  <1>1. ASSUME BuildInv, Built, Fits(request)
        PROVE  /\ result.change = 0 \/ result.change >= Dust
               /\ result.fee < request.marginal * result.actions + Dust
                    + request.marginal * (ActionsWith(request) - result.actions)
    <2>1. /\ Dust \in Nat \ {0} /\ request \in Inputs /\ request.marginal \in Nat
      BY <1>1, BuildAssumption DEF BuildInv
    <2> DEFINE w == request.marginal * ActionsWith(request)
               v == request.marginal * ActionsWithout(request)
    <2>2. /\ w \in Nat /\ v \in Nat
          /\ request.marginal * (ActionsWith(request) - ActionsWithout(request)) = w - v
          /\ request.marginal * (ActionsWith(request) - ActionsWith(request)) = 0
      BY <2>1, ChangeCosts, Times
    <2>3. QED
      BY <1>1, <2>1, <2>2, BuiltIs
  <1>2. BuildInv => LittleIsLost
    BY <1>1 DEF LittleIsLost, ActionsWith
  <1>3. QED
    BY <1>2, BuildInvariance, PTL

(* Want of money is reported only when there is want of money. *)
THEOREM FailsShort == Spec => []FailsOnlyShort
  <1>1. ASSUME BuildInv, result = [error |-> "not covered"], Fits(request)
        PROVE  request.totalIn <
                 request.totalOut + request.marginal * ActionsWithout(request)
    <2>1. result # WithChange(request) /\ result # WithoutChange(request)
      <3>1. /\ "error" \notin DOMAIN WithChange(request)
            /\ "error" \notin DOMAIN WithoutChange(request)
        BY DEF WithChange, WithoutChange
      <3>2. "error" \in DOMAIN [error |-> "not covered"]
        OBVIOUS
      <3>3. QED
        BY <1>1, <3>1, <3>2, Zenon
    <2>2. result # None
      BY <1>1, NoneAssumption
    <2>3. result # [error |-> "refused"]
      <3>1. [error |-> "not covered"].error # [error |-> "refused"].error
        OBVIOUS
      <3>2. QED
        BY <1>1, <3>1, Zenon
    <2>4. request \in Inputs /\ Left(request, FeeWithout(request)) < 0
      BY <1>1, <2>1, <2>2, <2>3 DEF BuildInv
    <2>5. /\ Left(request, FeeWithout(request))
               = request.totalIn - request.totalOut - FeeWithout(request)
          /\ FeeWithout(request) = request.marginal * ActionsWithout(request)
          /\ FeeWithout(request) \in Nat
      BY <1>1, <2>4, FitsExact
    <2>6. request.totalIn \in Nat /\ request.totalOut \in Nat
      BY <2>4, BuildAssumption
    <2>7. request.totalIn < request.totalOut + FeeWithout(request)
      BY <2>4, <2>5, <2>6
    <2>8. QED
      BY <2>5, <2>7
  <1>2. BuildInv => FailsOnlyShort
    BY <1>1 DEF FailsOnlyShort, ActionsWithout
  <1>3. QED
    BY <1>2, BuildInvariance, PTL

-----------------------------------------------------------------------------
(* The tool, with its files and a node.                                    *)
(* The result is build's, or the key could not be loaded. *)
ResultInv == request \in Inputs /\ (BuildInv \/ result = [error |-> "no key"])

SignerInv == signer # None => signer \in Keys /\ HoldsKey(IssuerPath, signer)

(* What a node checks of the signatures and of the amounts: each input is
   signed by the coin's owner for what the coins are worth, and they cover what
   is paid out. *)
OwnersSigned(t) ==
  /\ \A i, j \in DOMAIN t.inputs : t.inputs[i].prevout = t.inputs[j].prevout => i = j
  /\ \A i \in DOMAIN t.inputs :
       t.inputs[i].sig = [by |-> Owner(t.inputs[i].prevout),
                          over |-> SighashAll(t, i, Spends(t))]

Covered(t) == Sum(t.outputs) <= Sum(Spends(t)) /\ Sum(Spends(t)) < Word

(* The transaction build makes of the request and its amounts. *)
Printed == Signed(signer, request, Unsigned(signer, request, result))

TxInv ==
  /\ Built => tx # None
  /\ tx # None => /\ signer # None /\ Built
                  /\ tx = Printed
  /\ mined => tx # None /\ OwnersSigned(tx) /\ Covered(tx)
  /\ mined \in BOOLEAN

StamperInv == KeyInv /\ ResultInv /\ SignerInv /\ TxInv

(* A signature is over the values of all the coins the inputs spend. *)
LEMMA SignatureBinds ==
  ASSUME NEW t, NEW u, NEW i, NEW a, NEW b, SighashAll(t, i, a) = SighashAll(u, i, b)
  PROVE  DOMAIN a = DOMAIN b /\ \A j \in DOMAIN a : a[j].value = b[j].value
  <1> DEFINE v == [j \in DOMAIN a |-> a[j].value]
             w == [j \in DOMAIN b |-> b[j].value]
  <1>1. v = w
    BY DEF SighashAll, Top, Blake2b
  <1>2. DOMAIN v = DOMAIN a /\ DOMAIN w = DOMAIN b
    OBVIOUS
  <1>3. \A j \in DOMAIN a : v[j] = a[j].value
    OBVIOUS
  <1>4. \A j \in DOMAIN b : w[j] = b[j].value
    OBVIOUS
  <1> HIDE DEF v, w
  <1>5. QED
    BY <1>1, <1>2, <1>3, <1>4

(* A file that holds a key holds it after any step. *)
LEMMA HeldStaysHeld ==
  ASSUME KeyInv, [KeyNext]_keyVars, NEW p, NEW k, HoldsKey(p, k)
  PROVE  HoldsKey(p, k)'
  <1>1. p \in DOMAIN KeyOf /\ KeyOf[p] = k
    BY DEF HoldsKey, KeyOf
  <1>2. p \in DOMAIN KeyOf' /\ KeyOf'[p] = k
    <2>1. CASE UNCHANGED <<KeyOf, shown>>
      BY <1>1, <2>1
    <2>2. CASE Promise!Next
      BY <1>1, <2>2 DEF Promise!Next, Promise!Show, Promise!Keep, KeyOf
    <2>3. QED
      BY <2>1, <2>2, StepPromises
  <1>3. QED
    BY <1>2 DEF HoldsKey, KeyOf

-----------------------------------------------------------------------------
LEMMA StamperStart == StamperInit => StamperInv
  <1> SUFFICES ASSUME StamperInit PROVE StamperInv
    OBVIOUS
  <1>1. KeyInv
    BY Start DEF StamperInit
  <1>2. ResultInv
    BY InitInv DEF StamperInit, Init, ResultInv
  <1>3. SignerInv /\ TxInv
    BY DEF StamperInit, SignerInv, TxInv, Init, Built
  <1>4. QED
    BY <1>1, <1>2, <1>3 DEF StamperInv

(* Nothing else is in a transaction, or in its validity. *)
LEMMA SameTransaction ==
  ASSUME UNCHANGED <<request, result, signer, tx>>
  PROVE  /\ Printed' = Printed
         /\ OwnersSigned(tx)' <=> OwnersSigned(tx)
         /\ Covered(tx)' <=> Covered(tx)
         /\ Built' <=> Built
  <1>1. Printed' = Printed
    BY DEF Printed, Signed, Unsigned, Stated
  <1>2. OwnersSigned(tx)' <=> OwnersSigned(tx)
    BY DEF OwnersSigned, Spends
  <1>3. QED
    <2>1. Built' <=> Built
      BY DEF Built
    <2>2. Covered(tx)' <=> Covered(tx)
      BY DEF Covered
    <2>3. QED
      BY <1>1, <1>2, <2>1, <2>2

(* The other runs' steps. *)
LEMMA OthersKeep ==
  ASSUME StamperInv, [KeyNext]_keyVars, UNCHANGED <<vars, signer, tx, mined>>
  PROVE  StamperInv'
  <1>1. KeyInv'
    BY StepKeeps DEF StamperInv
  <1>2. ResultInv'
    BY DEF StamperInv, ResultInv, BuildInv, vars
  <1>3. SignerInv'
    <2>1. SUFFICES ASSUME signer # None
                   PROVE  signer \in Keys /\ HoldsKey(IssuerPath, signer)'
      BY DEF SignerInv
    <2>2. signer \in Keys /\ HoldsKey(IssuerPath, signer)
      BY <2>1 DEF StamperInv, SignerInv
    <2>3. QED
      BY <2>2, HeldStaysHeld DEF StamperInv, HoldsKey
  <1>4. TxInv'
    BY SameTransaction DEF StamperInv, TxInv, vars
  <1>5. QED
    BY <1>1, <1>2, <1>3, <1>4 DEF StamperInv

(* Before a result there is no transaction. *)
LEMMA NothingYet ==
  ASSUME StamperInv, result = None
  PROVE  BuildInv /\ tx = None /\ mined = FALSE
  BY StamperAssumption DEF StamperInv, ResultInv, TxInv, Built

LEMMA LoadKeeps ==
  ASSUME StamperInv, Load
  PROVE  StamperInv'
  <1>1. /\ result = None /\ Loads(IssuerPath) /\ signer' = file[IssuerPath].key
        /\ UNCHANGED <<vars, keyVars, tx, mined>>
    BY DEF Load
  <1>2. KeyInv' /\ ResultInv'
    BY <1>1, StepKeeps DEF StamperInv, ResultInv, BuildInv, vars
  <1>3. SignerInv'
    BY <1>1, Typed DEF StamperInv, KeyInv, SignerInv, HoldsKey, Kept, Loads, keyVars
  <1>4. TxInv'
    BY <1>1, NothingYet DEF TxInv, Built, vars
  <1>5. QED
    BY <1>2, <1>3, <1>4 DEF StamperInv

LEMMA NoKeyKeeps ==
  ASSUME StamperInv, NoKey
  PROVE  StamperInv'
  <1>1. /\ result = None /\ result' = [error |-> "no key"]
        /\ UNCHANGED <<request, keyVars, signer, tx, mined>>
    BY DEF NoKey, Fail
  <1>2. KeyInv' /\ ResultInv'
    BY <1>1, StepKeeps DEF StamperInv, ResultInv
  <1>3. SignerInv'
    BY <1>1 DEF StamperInv, SignerInv, HoldsKey, Kept, keyVars
  <1>4. TxInv'
    <2>1. "fee" \notin DOMAIN [error |-> "no key"]
      OBVIOUS
    <2>2. ~Built'
      BY <1>1, <2>1, Zenon DEF Built
    <2>3. QED
      BY <1>1, <2>2, NothingYet DEF TxInv
  <1>5. QED
    BY <1>2, <1>3, <1>4 DEF StamperInv

LEMMA SigningKeeps ==
  ASSUME StamperInv, NEW ACTION step, step => Next, Signing(step)
  PROVE  StamperInv'
  <1>1. /\ signer # None /\ Next /\ UNCHANGED <<keyVars, signer, mined>>
        /\ tx' = IF "fee" \in DOMAIN result'
                 THEN Signed(signer, request, Unsigned(signer, request, result')) ELSE None
    BY DEF Signing
  <1>2. result = None /\ request' = request
    BY <1>1 DEF Next, Refuse, NotCovered, MakeWithChange, MakeWithout, Fail
  <1>3. BuildInv' /\ mined' = FALSE
    BY <1>1, <1>2, NothingYet, NextInv
  <1>4. ASSUME "fee" \in DOMAIN result'
        PROVE  /\ result' # None
               /\ result' = WithChange(request) \/ result' = WithoutChange(request)
    <2>1. CASE MakeWithChange
      <3>1. /\ result' = WithChange(request) /\ Changes(request)
            /\ request \in Inputs /\ Word \in Nat
        BY <1>2, <2>1, NothingYet, BuildAssumption DEF MakeWithChange, BuildInv
      <3>2. DOMAIN WithChange(request) = {"fee", "change", "actions"}
            /\ WithChange(request) = [fee |-> WithChange(request).fee,
                                      change |-> WithChange(request).change,
                                      actions |-> WithChange(request).actions]
        BY DEF WithChange
      <3>3. WithChange(request) \in [fee : Nat, change : Nat, actions : Nat]
        BY <3>1, <3>2, Words
      <3>4. QED
        BY <3>1, <3>3, NoneAssumption
    <2>2. CASE MakeWithout
      <3>1. /\ result' = WithoutChange(request) /\ Left(request, FeeWithout(request)) >= 0
            /\ request \in Inputs /\ Word \in Nat
        BY <1>2, <2>2, NothingYet, BuildAssumption DEF MakeWithout, BuildInv
      <3>2. WithoutChange(request) = [fee |-> WithoutChange(request).fee,
                                      change |-> WithoutChange(request).change,
                                      actions |-> WithoutChange(request).actions]
        BY DEF WithoutChange
      <3>3. WithoutChange(request) \in [fee : Nat, change : Nat, actions : Nat]
        BY <3>1, <3>2, Words
      <3>4. QED
        BY <3>1, <3>3, NoneAssumption
    <2>3. CASE Refuse \/ NotCovered
      <3>1. result' = [error |-> "refused"] \/ result' = [error |-> "not covered"]
        BY <2>3 DEF Refuse, NotCovered, Fail
      <3>2. /\ "fee" \notin DOMAIN [error |-> "refused"]
            /\ "fee" \notin DOMAIN [error |-> "not covered"]
        OBVIOUS
      <3>3. QED
        BY <1>4, <3>1, <3>2, Zenon
    <2>4. QED
      BY <1>1, <2>1, <2>2, <2>3 DEF Next
  <1>5. TxInv'
    <2>1. CASE "fee" \in DOMAIN result'
      <3>1. tx' = Printed'
        BY <1>1, <1>2, <2>1 DEF Printed, Signed, Unsigned, Stated
      <3>2. Built'
        BY <1>4, <2>1 DEF Built
      <3>3. signer \in Keys /\ request \in Inputs
        BY <1>1, <1>2, NothingYet DEF StamperInv, SignerInv, BuildInv
      <3>4. \A res : res = WithChange(request) \/ res = WithoutChange(request) =>
              Signed(signer, request, Unsigned(signer, request, res)) # None
        BY <3>3, StamperAssumption
      <3>5. tx' # None
        BY <1>1, <1>4, <2>1, <3>4
      <3>6. QED
        BY <1>1, <1>3, <3>1, <3>2, <3>5 DEF TxInv
    <2>2. CASE "fee" \notin DOMAIN result'
      BY <1>1, <1>3, <2>2 DEF TxInv, Built
    <2>3. QED
      BY <2>1, <2>2
  <1>6. KeyInv' /\ SignerInv'
    BY <1>1, StepKeeps DEF StamperInv, SignerInv, HoldsKey, Kept, keyVars
  <1>7. ResultInv'
    BY <1>3 DEF ResultInv, BuildInv
  <1>8. QED
    BY <1>5, <1>6, <1>7 DEF StamperInv

LEMMA MineKeeps ==
  ASSUME StamperInv, Mine
  PROVE  StamperInv'
  <1>1. /\ tx # None /\ OwnersSigned(tx) /\ Covered(tx) /\ mined' = TRUE
        /\ UNCHANGED <<vars, keyVars, signer, tx>>
    BY DEF Mine, Valid, OwnersSigned, Covered
  <1>2. KeyInv' /\ ResultInv' /\ SignerInv'
    BY <1>1, StepKeeps
    DEF StamperInv, ResultInv, BuildInv, SignerInv, HoldsKey, Kept, vars, keyVars
  <1>3. TxInv'
    BY <1>1, SameTransaction DEF StamperInv, TxInv, vars
  <1>4. QED
    BY <1>2, <1>3 DEF StamperInv

LEMMA StamperStepKeeps == StamperInv /\ [StamperNext]_stamperVars => StamperInv'
  <1> SUFFICES ASSUME StamperInv, [StamperNext]_stamperVars PROVE StamperInv'
    OBVIOUS
  <1>1. CASE KeyNext /\ UNCHANGED <<vars, signer, tx, mined>>
    BY <1>1, OthersKeep
  <1>2. CASE Load
    BY <1>2, LoadKeeps
  <1>3. CASE NoKey
    BY <1>3, NoKeyKeeps
  <1>4. CASE Signing(Refuse)
    BY <1>4, SigningKeeps DEF Next
  <1>5. CASE Signing(NotCovered)
    BY <1>5, SigningKeeps DEF Next
  <1>6. CASE Signing(MakeWithChange)
    BY <1>6, SigningKeeps DEF Next
  <1>7. CASE Signing(MakeWithout)
    BY <1>7, SigningKeeps DEF Next
  <1>8. CASE Mine
    BY <1>8, MineKeeps
  <1>9. CASE UNCHANGED stamperVars
    BY <1>9, OthersKeep DEF stamperVars
  <1>10. QED
    BY <1>1, <1>2, <1>3, <1>4, <1>5, <1>6, <1>7, <1>8, <1>9 DEF StamperNext

(* The inductive invariant of the tool and the files: the result is build's, the
   key that signs is in its file, and the transaction is the one signed of the
   request (stamper.rs:53-65, build.rs:75-144). *)
THEOREM StamperInvariance == StamperSpec => []StamperInv
  BY StamperStart, StamperStepKeeps, PTL DEF StamperSpec

(* Once a transaction is mined, every coin of the request was the signing key's
   and worth what the request stated, no coin was named twice, and the key, to
   which the change went, is still in the issuer's file. *)
SpentTruly ==
  mined =>
    /\ \A i \in DOMAIN request.coins :
         /\ Owner(request.coins[i]) = signer
         /\ request.inputs[i] = Worth(request.coins[i])
         /\ \A j \in DOMAIN request.coins : request.coins[i] = request.coins[j] => i = j
    /\ HoldsKey(IssuerPath, signer)

(* A request that misstates a coin, names another's or names one twice is never
   mined, whatever its amounts: the signatures are over the stated values of
   all the coins (tx.rs:185-210, build.rs:131-142). *)
THEOREM NothingMisspent == StamperSpec => []SpentTruly
  <1>1. ASSUME StamperInv, mined PROVE SpentTruly
    <2> DEFINE t == Unsigned(signer, request, result)
               r == request
    <2>1. /\ tx = Signed(signer, r, t) /\ signer # None /\ OwnersSigned(tx)
          /\ HoldsKey(IssuerPath, signer)
      BY <1>1 DEF StamperInv, TxInv, SignerInv, Printed
    <2>2. /\ DOMAIN tx.inputs = DOMAIN r.coins
          /\ \A i \in DOMAIN r.coins :
               /\ tx.inputs[i].prevout = r.coins[i]
               /\ tx.inputs[i].sig = [by |-> signer, over |-> SighashAll(t, i, Stated(signer, r))]
      BY <2>1 DEF Signed, Unsigned
    <2> HIDE DEF t, r
    <2>3. \A i \in DOMAIN r.coins :
            /\ Owner(r.coins[i]) = signer
            /\ SighashAll(t, i, Stated(signer, r)) = SighashAll(tx, i, Spends(tx))
      <3>1. \A i \in DOMAIN r.coins :
              [by |-> signer, over |-> SighashAll(t, i, Stated(signer, r))]
                = [by |-> Owner(r.coins[i]), over |-> SighashAll(tx, i, Spends(tx))]
        BY <2>1, <2>2 DEF OwnersSigned
      <3>2. QED
        BY <3>1
    <2>4. \A i \in DOMAIN r.coins : Stated(signer, r)[i].value = Spends(tx)[i].value
      <3>1. SUFFICES ASSUME NEW i \in DOMAIN r.coins
                     PROVE  Stated(signer, r)[i].value = Spends(tx)[i].value
        OBVIOUS
      <3>2. SighashAll(t, i, Stated(signer, r)) = SighashAll(tx, i, Spends(tx))
        BY <2>3
      <3>3. \A j \in DOMAIN Stated(signer, r) : Stated(signer, r)[j].value = Spends(tx)[j].value
        BY ONLY <3>2, SignatureBinds
      <3>4. DOMAIN Stated(signer, r) = DOMAIN r.coins
        BY DEF Stated
      <3>5. QED
        BY <3>3, <3>4
    <2>5. \A i \in DOMAIN r.coins : r.inputs[i] = Worth(r.coins[i])
      BY <2>2, <2>4 DEF Stated, Spends
    <2>6. ASSUME NEW i \in DOMAIN r.coins, NEW j \in DOMAIN r.coins,
                 r.coins[i] = r.coins[j]
          PROVE  i = j
      <3>1. i \in DOMAIN tx.inputs /\ j \in DOMAIN tx.inputs
        BY <2>2, Zenon
      <3>2. tx.inputs[i].prevout = tx.inputs[j].prevout
        BY <2>2, <2>6, Zenon
      <3>3. \A k, l \in DOMAIN tx.inputs :
              tx.inputs[k].prevout = tx.inputs[l].prevout => k = l
        BY <2>1, Zenon DEF OwnersSigned
      <3>4. QED
        BY <3>1, <3>2, <3>3, Zenon
    <2>7. QED
      BY <2>1, <2>3, <2>5, <2>6 DEF SpentTruly, r
  <1>2. StamperInv => SpentTruly
    BY <1>1 DEF SpentTruly
  <1>3. QED
    BY <1>2, StamperInvariance, PTL

-----------------------------------------------------------------------------
(* What is printed of a transaction that is mined.                         *)

(* The fee of a transaction that the coins cover is what they leave, though the
   amounts wrapped on the way. *)
LEMMA WrapsOnce ==
  ASSUME NEW x \in Nat, x < Word + Word
  PROVE  x % Word = IF x < Word THEN x ELSE x - Word
  <1>1. Word \in Nat \ {0}
    BY BuildAssumption
  <1>2. CASE x < Word
    BY <1>1, <1>2, Unwrapped
  <1>3. CASE x >= Word
    <2>1. (x - Word) % Word = x % Word
      BY <1>1, <1>3
    <2>2. (x - Word) % Word = x - Word
      BY <1>1, <1>3, Unwrapped
    <2>3. QED
      BY <1>1, <1>3, <2>1, <2>2
  <1>4. QED
    BY <1>1, <1>2, <1>3

LEMMA CoveredFee ==
  ASSUME NEW r \in Inputs, r.totalIn < Word
  PROVE  /\ Changes(r) /\ r.totalOut + WithChange(r).change <= r.totalIn =>
              WithChange(r).fee = r.totalIn - (r.totalOut + WithChange(r).change)
         /\ Left(r, FeeWithout(r)) >= 0 /\ r.totalOut <= r.totalIn =>
              WithoutChange(r).fee = r.totalIn - r.totalOut
  <1>1. PICK i \in Nat, o \in Nat : i = r.totalIn /\ o = r.totalOut
    BY BuildAssumption
  <1>2. Word \in Nat \ {0} /\ In(r) = i
    BY <1>1, BuildAssumption, Unwrapped DEF In
  <1>3. PICK f \in Nat, g \in Nat : /\ f = FeeWith(r) /\ g = FeeWithout(r)
                                    /\ f < Word /\ g < Word
    <2>1. r.marginal \in Nat
      BY BuildAssumption
    <2>2. ActionsWith(r) \in Nat /\ ActionsWithout(r) \in Nat
      BY ChangeCosts
    <2>3. r.marginal * ActionsWith(r) \in Nat /\ r.marginal * ActionsWithout(r) \in Nat
      BY <2>1, <2>2, Times
    <2>4. \A x \in Nat : x % Word \in Nat /\ x % Word < Word
      BY <1>2
    <2>5. QED
      BY <2>3, <2>4 DEF FeeWith, FeeWithout, Fee, ActionsWith, ActionsWithout
  <1>4. o <= i => Out(r) = o
    BY <1>1, <1>2, Unwrapped DEF Out
  <1>5. ASSUME NEW x \in Nat, x < Word, o <= i
        PROVE  Left(r, x) = i - (IF o + x < Word THEN o + x ELSE o + x - Word)
    <2>1. PICK y \in Nat : y = o + x /\ y < Word + Word
      BY <1>1, <1>2, <1>5
    <2>2. y % Word = IF y < Word THEN y ELSE y - Word
      BY <2>1, WrapsOnce
    <2>3. QED
      BY <1>2, <1>4, <1>5, <2>1, <2>2 DEF Left
  <1>6. ASSUME Changes(r), r.totalOut + WithChange(r).change <= r.totalIn
        PROVE  WithChange(r).fee = r.totalIn - (r.totalOut + WithChange(r).change)
    <2>1. WithChange(r).fee = f /\ WithChange(r).change = Left(r, f) /\ Left(r, f) >= Dust
      BY <1>3, <1>6 DEF WithChange, Changes
    <2>2. Left(r, f) \in Int /\ Dust \in Nat
      <3>1. (Out(r) + f) % Word \in Int
        <4>1. r.totalOut % Word \in Int
          BY <1>1, <1>2
        <4>2. QED
          BY <1>2, <1>3, <4>1 DEF Out
      <3>2. QED
        BY <1>2, <3>1, BuildAssumption DEF Left
    <2>3. o + Left(r, f) <= i /\ o <= i
      BY <1>1, <1>6, <2>1, <2>2
    <2>4. Left(r, f) = i - (IF o + f < Word THEN o + f ELSE o + f - Word)
      BY <1>3, <1>5, <2>3
    <2>5. f = i - (o + Left(r, f))
      BY <1>2, <1>3, <2>3, <2>4
    <2>6. QED
      BY <1>1, <2>1, <2>5
  <1>7. ASSUME Left(r, FeeWithout(r)) >= 0, r.totalOut <= r.totalIn
        PROVE  WithoutChange(r).fee = r.totalIn - r.totalOut
    <2>1. o <= i /\ Left(r, g) >= 0
      BY <1>1, <1>3, <1>7
    <2>2. Left(r, g) = i - (IF o + g < Word THEN o + g ELSE o + g - Word)
      BY <1>3, <1>5, <2>1
    <2>3. PICK x \in Nat : /\ x = g + Left(r, g) /\ x < Word + Word
                           /\ x = IF o + g < Word THEN i - o ELSE i - o + Word
      BY <1>1, <1>2, <1>3, <2>1, <2>2
    <2>4. x % Word = i - o
      BY <1>1, <1>2, <2>1, <2>3, WrapsOnce
    <2>5. WithoutChange(r).fee = x % Word
      BY <1>3, <2>3 DEF WithoutChange
    <2>6. QED
      BY <1>1, <2>4, <2>5
  <1>8. QED
    BY <1>6, <1>7

(* The values of coins or outputs. *)
Values(v) == [i \in DOMAIN v |-> v[i].value]

LEMMA SumOfValues ==
  ASSUME NEW v
  PROVE  Sum(v) = SumFunctionOnSet(Values(v), DOMAIN v)
  BY DEF Sum, Values, SumFunctionOnSet, FoldFunctionOnSet, MapThenFoldSet, MapThenSumSet

(* One more output adds its value. *)
LEMMA SumAppended ==
  ASSUME NEW S, NEW v \in Seq(S), \A i \in DOMAIN v : v[i].value \in Nat, NEW x,
         x.value \in Nat
  PROVE  /\ Sum(v \o <<x>>) = Sum(v) + x.value
         /\ SubSeq(v \o <<x>>, 1, Len(v)) = v
  <1> DEFINE n == Len(v)
             w == v \o <<x>>
             f == Values(w)
  <1>1. /\ n \in Nat /\ DOMAIN v = 1..n /\ DOMAIN w = 1..(n + 1)
        /\ \A i \in 1..n : w[i] = v[i]
        /\ w[n + 1] = x
    OBVIOUS
  <1>2. /\ \A i \in 1..n : f[i] = Values(v)[i]
        /\ f[n + 1] = x.value
        /\ \A i \in 1..n : f[i] \in Nat
    BY <1>1 DEF Values
  <1>3. SubSeq(w, 1, n) = v
    BY <1>1
  <1> HIDE DEF n, f, w
  <1>4. IsFiniteSet(1..n) /\ n + 1 \notin 1..n /\ 1..(n + 1) = 1..n \cup {n + 1}
    <2>1. IsFiniteSet(1..n)
      BY <1>1, FS_Interval
    <2>2. n + 1 \notin 1..n /\ 1..(n + 1) = 1..n \cup {n + 1}
      BY <1>1
    <2>3. QED
      BY <2>1, <2>2
  <1>5. \A y \in 1..n \cup {n + 1} : f[y] \in Int
    BY <1>2
  <1>6. SumFunctionOnSet(f, 1..n \cup {n + 1}) = f[n + 1] + SumFunctionOnSet(f, 1..n)
    BY <1>4, <1>5, SumAdd
  <1>7. SumFunctionOnSet(f, 1..n) = Sum(v)
    <2>1. SumFunctionOnSet(f, 1..n) = SumFunctionOnSet(Values(v), 1..n)
      BY <1>2, <1>4, SumSame
    <2>2. QED
      BY <1>1, <2>1, SumOfValues
  <1>8. SumFunctionOnSet(f, 1..n) \in Int
    BY <1>4, <1>5, SumInt
  <1>9. Sum(w) = x.value + Sum(v) /\ Sum(v) \in Int
    BY <1>1, <1>2, <1>4, <1>6, <1>7, <1>8, SumOfValues DEF f
  <1>10. QED
    BY <1>3, <1>9 DEF n, w

(* The sums a request states are those of its parts. *)
LEMMA StatedSums ==
  ASSUME NEW r \in Inputs
  PROVE  /\ Sum(r.outputs) = r.totalOut
         /\ r.totalIn = SumFunctionOnSet(r.inputs, DOMAIN r.inputs)
         /\ IsFiniteSet(DOMAIN r.inputs)
         /\ r.totalIn \in Nat /\ r.totalOut \in Nat
  <1>1. r.totalOut = Sum(r.outputs)
    BY SumsAssumption DEF Sum
  <1>2. r.inputs \in Seq(Nat) /\ r.totalIn \in Nat /\ r.totalOut \in Nat
    BY BuildAssumption
  <1>3. IsFiniteSet(DOMAIN r.inputs)
    <2>1. PICK n \in Nat : DOMAIN r.inputs = 1..n
      BY <1>2
    <2>2. QED
      BY <2>1, FS_Interval
  <1>4. r.totalIn = MapThenSumSet(LAMBDA i : r.inputs[i], DOMAIN r.inputs)
    BY SumsAssumption
  <1>5. r.totalIn = SumFunctionOnSet(r.inputs, DOMAIN r.inputs)
    BY <1>4 DEF SumFunctionOnSet, FoldFunctionOnSet, MapThenFoldSet, MapThenSumSet
  <1>6. QED
    BY <1>1, <1>2, <1>3, <1>5

(* What was printed of a transaction is its request, its change and its fee. *)
LEMMA PrintedIs ==
  ASSUME StamperInv, tx # None
  PROVE  /\ request \in Inputs /\ result.change \in Nat
         /\ Sum(tx.outputs) = request.totalOut + result.change
         /\ SubSeq(tx.outputs, 1, Len(request.outputs)) = request.outputs
         /\ \/ result = WithChange(request) /\ Changes(request)
            \/ /\ result = WithoutChange(request) /\ result.change = 0
               /\ Left(request, FeeWithout(request)) >= 0
  <1> DEFINE r == request
             v == r.outputs
             S == {v[i] : i \in DOMAIN v}
             x == [value |-> result.change, script |-> PayTo(signer)]
  <1>1. /\ Built /\ r \in Inputs /\ BuildInv /\ tx = Printed
    <2>1. "fee" \notin DOMAIN [error |-> "no key"]
      OBVIOUS
    <2>2. Built /\ tx = Printed /\ r \in Inputs
      BY DEF StamperInv, TxInv, ResultInv
    <2>3. result # [error |-> "no key"]
      BY <2>1, <2>2, Zenon DEF Built
    <2>4. QED
      BY <2>2, <2>3 DEF StamperInv, ResultInv
  <1>2. \/ result = WithChange(r) /\ Changes(r)
        \/ result = WithoutChange(r) /\ Left(r, FeeWithout(r)) >= 0
    <2>1. /\ "fee" \notin DOMAIN [error |-> "refused"]
          /\ "fee" \notin DOMAIN [error |-> "not covered"]
      OBVIOUS
    <2>2. result # None /\ result # [error |-> "refused"] /\ result # [error |-> "not covered"]
      BY <1>1, <2>1, Zenon DEF Built
    <2>3. QED
      BY <1>1, <2>2 DEF BuildInv
  <1>3. result.change \in Nat /\ (result = WithoutChange(r) => result.change = 0)
    <2>1. WithoutChange(r).change = 0
      BY DEF WithoutChange
    <2>2. ASSUME result = WithChange(r), Changes(r) PROVE result.change \in Nat
      BY <1>1, <2>2, Words, BuildAssumption
    <2>3. QED
      BY <1>2, <2>1, <2>2
  <1>4. /\ v \in Seq(S) /\ \A i \in DOMAIN v : v[i].value \in Nat
    BY <1>1, StamperAssumption
  <1>5. tx.outputs = IF result.change > 0 THEN v \o <<x>> ELSE v
    <2>1. tx.outputs = v \o IF result.change > 0 THEN <<x>> ELSE << >>
      BY <1>1 DEF Printed, Signed, Unsigned
    <2>2. v \o << >> = v
      BY <1>4, ConcatEmptySeq
    <2>3. QED
      BY <2>1, <2>2
  <1>6. Sum(v) = r.totalOut /\ r.totalOut \in Nat
    BY <1>1, StatedSums
  <1>7. x.value = result.change
    OBVIOUS
  <1> HIDE DEF v, S, x
  <1>8. /\ Sum(tx.outputs) = r.totalOut + result.change
        /\ SubSeq(tx.outputs, 1, Len(v)) = v
    <2>1. CASE result.change > 0
      BY <1>3, <1>4, <1>5, <1>6, <1>7, <2>1, SumAppended
    <2>2. CASE ~(result.change > 0)
      BY <1>3, <1>4, <1>5, <1>6, <2>2, SubSeqFull
    <2>3. QED
      BY <2>1, <2>2
  <1>9. QED
    BY <1>1, <1>2, <1>3, <1>8 DEF v

(* The fee paid is the fee printed, every coin was the issuer's, the outputs are
   those asked for and the change goes to a key that is still in its file
   (build.rs:106-144, stamper.rs:53-65). *)
THEOREM MinedIsPrinted == StamperSpec => []MinedAsPrinted
  <1>1. ASSUME StamperInv, SpentTruly, mined PROVE MinedAsPrinted
    <2> DEFINE r == request
    <2>1. /\ tx # None /\ OwnersSigned(tx) /\ Covered(tx)
          /\ tx = Printed
      BY <1>1 DEF StamperInv, TxInv
    <2>2. /\ DOMAIN tx.inputs = DOMAIN r.coins
          /\ \A i \in DOMAIN r.coins : tx.inputs[i].prevout = r.coins[i]
      BY <2>1 DEF Printed, Signed, Unsigned
    <2>3. /\ r \in Inputs /\ result.change \in Nat
          /\ Sum(tx.outputs) = r.totalOut + result.change
          /\ SubSeq(tx.outputs, 1, Len(r.outputs)) = r.outputs
          /\ \/ result = WithChange(r) /\ Changes(r)
             \/ /\ result = WithoutChange(r) /\ result.change = 0
                /\ Left(r, FeeWithout(r)) >= 0
      BY <1>1, <2>1, PrintedIs
    <2>4. DOMAIN r.coins = DOMAIN r.inputs
      BY <2>3, StamperAssumption
    <2>5. /\ Sum(r.outputs) = r.totalOut
          /\ r.totalIn = SumFunctionOnSet(r.inputs, DOMAIN r.inputs)
          /\ IsFiniteSet(DOMAIN r.inputs)
          /\ r.totalIn \in Nat /\ r.totalOut \in Nat
      BY <2>3, StatedSums
    <2>6. Sum(Spends(tx)) = r.totalIn
      <3>1. DOMAIN Spends(tx) = DOMAIN r.inputs
        BY <2>2, <2>4 DEF Spends
      <3>2. \A i \in DOMAIN r.inputs : Values(Spends(tx))[i] = r.inputs[i]
        BY <1>1, <2>2, <2>4 DEF Values, Spends, SpentTruly
      <3>3. QED
        BY <2>5, <3>1, <3>2, SumSame, SumOfValues
    <2>7. r.totalIn < Word /\ r.totalOut + result.change <= r.totalIn
      BY <2>1, <2>3, <2>6 DEF Covered
    <2>8. result.fee = r.totalIn - (r.totalOut + result.change)
      BY <2>3, <2>5, <2>7, CoveredFee
    <2>9. \A i \in DOMAIN tx.inputs : Owner(tx.inputs[i].prevout) = signer
      BY <1>1, <2>2 DEF SpentTruly
    <2>10. IssuerPath \in Kept /\ file[IssuerPath].key = signer
      BY <1>1 DEF SpentTruly, HoldsKey
    <2>11. QED
      BY <2>3, <2>5, <2>6, <2>8, <2>9, <2>10 DEF MinedAsPrinted
  <1>2. StamperInv /\ SpentTruly => MinedAsPrinted
    BY <1>1 DEF MinedAsPrinted
  <1>3. QED
    BY <1>2, StamperInvariance, NothingMisspent, PTL

(* Every variable keeps its type; nothing is built without a key, nothing mined
   that was not printed. *)
THEOREM StamperTyped == StamperSpec => []StamperTypeOK
  <1>1. StamperInv => StamperTypeOK
    <2> SUFFICES ASSUME StamperInv PROVE StamperTypeOK
      OBVIOUS
    <2>1. TypeOK \/ result = [error |-> "no key"]
      BY BuildTyped DEF StamperInv, ResultInv
    <2>2. KeyTypeOK /\ signer \in Keys \cup {None}
      BY DEF StamperInv, KeyInv, SignerInv
    <2>3. QED
      BY <2>1, <2>2 DEF StamperInv, TxInv, StamperTypeOK
  <1>2. QED
    BY <1>1, StamperInvariance, PTL

-----------------------------------------------------------------------------
(* What the tool builds conserves the coins, as build alone does, with other
   runs making keys beside it and whether or not its key loads
   (build.rs:106-125). *)
THEOREM StamperLosesNothing == StamperSpec => []Conserves
  <1>1. result = [error |-> "no key"] => ~Built
    <2>1. "fee" \notin DOMAIN [error |-> "no key"]
      OBVIOUS
    <2>2. QED
      BY <2>1, Zenon DEF Built
  <1>2. StamperInv => Conserves
    BY <1>1, BuiltIs DEF StamperInv, ResultInv, Conserves
  <1>3. QED
    BY <1>2, StamperInvariance, PTL

(* The keys of the tool's files keep their promise beside the signing. *)
THEOREM StamperKeepsKeys == StamperSpec => KeepsKeys
  <1>1. StamperInit => KeyInit
    BY DEF StamperInit
  <1>2. [StamperNext]_stamperVars => [KeyNext]_keyVars
    BY DEF StamperNext, stamperVars, Load, NoKey, Signing, Mine, keyVars
  <1>3. StamperSpec => KeySpec
    BY <1>1, <1>2, PTL DEF StamperSpec, KeySpec
  <1>4. QED
    BY <1>3, Refinement, PTL

=============================================================================
