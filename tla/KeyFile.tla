------------------------------ MODULE KeyFile -------------------------------
(***************************************************************************)
(* The files that hold keys: the issuer key (key.rs), the request key      *)
(* (seal.rs) and the viewing keys of a test wallet (stamp-proof.rs), made  *)
(* by runs of `stamper keygen`, `stamper request-keygen` and `stamp-proof  *)
(* testwallet` that may overlap, and may be killed or fail to write at any *)
(* moment; read by the other commands at any moment.                       *)
(*                                                                         *)
(* A run generates at most one key, which is named after the run: random   *)
(* keys differ.  An address stands for the key it is of.                   *)
(***************************************************************************)
EXTENDS Integers, Sequences

CONSTANTS
  Runs,       \* runs of the tools that make keys
  Commands,   \* command -> the files it writes, in order
  Old,        \* a key made before any of these runs
  Guarded     \* the files read only if nobody else may read them

Paths == UNION {{Commands[c][i] : i \in DOMAIN Commands[c]} : c \in DOMAIN Commands}

Keys == Runs \cup {Old}

ASSUME KeyAssumption ==
  /\ \A c \in DOMAIN Commands : Commands[c] \in Seq(Paths) /\ Commands[c] # << >>
  /\ Old \notin Runs

(* The operator does not have one command's only file written by another as
   one of several. *)
ASSUME PathsAssumption ==
  \A c, d \in DOMAIN Commands, p \in Paths :
    /\ Commands[c] = <<p>>
    /\ \E i \in DOMAIN Commands[d] : Commands[d][i] = p
    => Commands[d] = <<p>>

VARIABLES
  file,    \* path -> [key, text, shared], for the files there are; text is 0
           \* for nothing, 1 for a part of the key, 2 for all of its
           \* characters and 3 for the newline too
  run,     \* run -> [at, command, next], next counting the command's files
  shown    \* the pairs <<path, key>> whose address was printed

keyVars == <<file, run, shown>>

Whole == 2

-----------------------------------------------------------------------------
(* Files may be there already, and some of the runs are never made. *)
KeyInit ==
  /\ \E S \in SUBSET Paths :
       file \in [S -> [key : {Old}, text : 0..3, shared : BOOLEAN]]
  /\ run \in [Runs -> [at : {"start", "done"}, command : {"none"}, next : {1}]]
  /\ shown = {}

Target(r) == Commands[run[r].command][run[r].next]

To(r, step) == run' = [run EXCEPT ![r].at = step]

(* path.exists(), after which another run may still create the file. *)
Begin(r, c) ==
  /\ run[r].at = "start"
  /\ Commands[c][1] \notin DOMAIN file
  /\ run' = [run EXCEPT ![r] = [at |-> "create", command |-> c, next |-> 1]]
  /\ UNCHANGED <<file, shown>>

RefuseToReplace(r, c) ==
  /\ run[r].at = "start"
  /\ Commands[c][1] \in DOMAIN file
  /\ To(r, "done")
  /\ UNCHANGED <<file, shown>>

Written(p, f) == [x \in DOMAIN file \cup {p} |-> IF x = p THEN f ELSE file[x]]

(* A slip: a file that is there by now is opened, and emptied. *)
Overwrite(r) ==
  /\ run[r].at = "create"
  /\ file' = Written(Target(r), [key |-> r, text |-> 0, shared |-> FALSE])
  /\ To(r, "write")
  /\ UNCHANGED shown

(* The open with create_new. *)
Create(r) ==
  /\ run[r].at = "create"
  /\ Target(r) \notin DOMAIN file
  /\ file' = Written(Target(r), [key |-> r, text |-> 0, shared |-> FALSE])
  /\ To(r, "write")
  /\ UNCHANGED shown

AlreadyThere(r) ==
  /\ run[r].at = "create"
  /\ Target(r) \in DOMAIN file
  /\ To(r, "done")
  /\ UNCHANGED <<file, shown>>

(* A slip: the address is printed once the first file is there. *)
WriteOne(r, n) ==
  /\ run[r].at = "write"
  /\ file[Target(r)].text < n
  /\ file' = Written(Target(r), [file[Target(r)] EXCEPT !.text = n])
  /\ IF n < 3 THEN UNCHANGED run ELSE To(r, "show")
  /\ UNCHANGED shown

(* A file is written: on to the command's next one, if there is one. *)
Onward(x) ==
  IF x.next < Len(Commands[x.command])
  THEN [x EXCEPT !.at = "create", !.next = x.next + 1]
  ELSE [x EXCEPT !.at = "show"]

(* write_all, in pieces of any size. *)
Write(r, n) ==
  /\ run[r].at = "write"
  /\ file[Target(r)].text < n
  /\ file' = Written(Target(r), [file[Target(r)] EXCEPT !.text = n])
  /\ run' = [run EXCEPT ![r] = IF n < 3 THEN @ ELSE Onward(@)]
  /\ UNCHANGED shown

(* The address is printed when all is written. *)
Show(r) ==
  /\ run[r].at = "show"
  /\ shown' = shown \cup {<<Commands[run[r].command][1], r>>}
  /\ To(r, "done")
  /\ UNCHANGED file

(* The run is killed, or a call to the file system fails. *)
Die(r) ==
  /\ run[r].at \in {"create", "write", "show"}
  /\ To(r, "done")
  /\ UNCHANGED <<file, shown>>

(* IssuerKey::read and RequestKey::read: a file with less than a whole key
   is not one. *)
Loads(p) ==
  /\ p \in DOMAIN file
  /\ file[p].text >= Whole
  /\ p \in Guarded => ~file[p].shared

(* `stamper address` and `request-pubkey`. *)
ReadBack(p) ==
  /\ \E c \in DOMAIN Commands : Commands[c] = <<p>>
  /\ Loads(p)
  /\ shown' = shown \cup {<<p, file[p].key>>}
  /\ UNCHANGED <<file, run>>

KeyNext ==
  \/ \E r \in Runs :
       \/ \E c \in DOMAIN Commands : Begin(r, c) \/ RefuseToReplace(r, c)
       \/ Create(r) \/ AlreadyThere(r) \/ Show(r) \/ Die(r)
       \/ \E n \in 1..3 : Write(r, n)
  \/ \E p \in Paths : ReadBack(p)

KeySpec == KeyInit /\ [][KeyNext]_keyVars
-----------------------------------------------------------------------------
(* What the key files must satisfy.                                        *)

Steps == {"start", "create", "write", "show", "done"}

KeyTypeOK ==
  /\ \E S \in SUBSET Paths :
       file \in [S -> [key : Keys, text : 0..3, shared : BOOLEAN]]
  /\ run \in [Runs -> [at : Steps, command : DOMAIN Commands \cup {"none"}, next : Nat]]
  /\ \A r \in Runs :
       run[r].at \in {"create", "write", "show"} =>
         /\ run[r].command \in DOMAIN Commands
         /\ run[r].next \in DOMAIN Commands[run[r].command]
  /\ shown \subseteq Paths \X Keys

(* A file holds a key once all of its characters are there. *)
Kept == {p \in DOMAIN file : file[p].text >= Whole}

Promise == INSTANCE KeyPromise
             WITH key <- [p \in Kept |-> file[p].key], shown <- shown,
                  Paths <- Paths, Keys <- Keys

(* Overlapping, killed and repeated runs keep the promise: no key that a file
   holds is ever replaced, and no address was printed whose key is not in its
   file, for good. *)
KeepsKeys == Promise!Spec

(* When the address of a new key is out, every file its command writes holds
   it: a test wallet's two viewing keys are of one wallet, and neither is
   missing. *)
AllFilesKept ==
  \A r \in Runs, p \in Paths : <<p, r>> \in shown =>
    \A i \in DOMAIN Commands[run[r].command] :
      LET q == Commands[run[r].command][i] IN q \in Kept /\ file[q].key = r

=============================================================================
