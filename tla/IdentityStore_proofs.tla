-------------------------- MODULE IdentityStore_proofs -----------------------
(***************************************************************************)
(* What is proved about IdentityStore, for any number of programs,         *)
(* registrations, runs and crashes.                                        *)
(***************************************************************************)
EXTENDS IdentityStore, FiniteSetTheorems, TLAPS

\* The list of files, written out.
LEMMA FilesAre ==
  /\ DOMAIN Files = 1 .. 6 /\ Len(Files) = 6
  /\ Files[1] = "json" /\ Files[2] = "public_key" /\ Files[3] = "private_key"
  /\ Files[4] = "signature" /\ Files[5] = "salt" /\ Files[6] = "metadata"
  /\ Names = {"json", "public_key", "private_key", "signature", "salt", "metadata"}
  /\ Parts = {"json", "public_key", "private_key", "signature", "salt"}
<1>1. /\ DOMAIN Files = 1 .. 6 /\ Len(Files) = 6
      /\ Files[1] = "json" /\ Files[2] = "public_key" /\ Files[3] = "private_key"
      /\ Files[4] = "signature" /\ Files[5] = "salt" /\ Files[6] = "metadata"
  BY DEF Files
<1>2. Names = {Files[1], Files[2], Files[3], Files[4], Files[5], Files[6]}
  <2>1. 1 .. 6 = {1, 2, 3, 4, 5, 6}
    BY SMT
  <2> QED
    BY <1>1, <2>1, Zenon DEF Names
<1>3. Names = {"json", "public_key", "private_key", "signature", "salt", "metadata"}
  BY <1>1, <1>2
<1>4. Parts = {"json", "public_key", "private_key", "signature", "salt"}
  BY <1>3 DEF Parts
<1> QED
  BY <1>1, <1>3, <1>4

\* No file comes twice.
LEMMA FilesDiffer ==
  ASSUME NEW j \in 1 .. 6, NEW k \in 1 .. 6, Files[j] = Files[k]
  PROVE  j = k
BY FilesAre

LEMMA FilesAreNames ==
  /\ \A k \in 1 .. 6 : Files[k] \in Names
  /\ \A name \in Names : \E k \in 1 .. 6 : name = Files[k]
BY FilesAre

----------------------------------------------------------------------------
(* The invariant.                                                          *)

\* Where in the list of files a program may be.
Place(p) ==
  /\ At(p, "none") => program[p] = Idle
  /\ program[p].step \in {"typing", "confirming", "confirmed"} => program[p].at = 1
  /\ At(p, "save") => program[p].at <= 5
  /\ At(p, "loading") => program[p].at <= 5
  /\ At(p, "loading") /\ program[p].at = 1 => program[p].read = Idle.read
  /\ Saving(p) => program[p].mine \in 1 .. MaxRegistrations
  /\ ~Saving(p) => program[p].open = "no"

Places == \A p \in Programs : Place(p)

\* One program at a time changes files.
Alone == \A p, q \in Programs : Changing(p) /\ Changing(q) => p = q

\* Nothing is there before identity.json holds a registration, and then nothing but
\* parts of that one.
Backed ==
  /\ file["json"] \in {Absent, Empty} =>
       \A name \in Names \ {"json"} : file[name] = Absent
  /\ \A name \in Names : file[name] \in {Absent, Empty, file["json"]}

\* What a program that saves has written and has not.
Saved(p) ==
  Saving(p) =>
    /\ program[p].open # "lost"
    /\ file[Current(p)] = IF program[p].open = "no" THEN Absent ELSE Empty
    /\ \A k \in 1 .. 6 : /\ k < program[p].at => file[Files[k]] = program[p].mine
                         /\ k > program[p].at => file[Files[k]] = Absent

\* What the other programs that change files have found.
Found(p) ==
  /\ At(p, "typing") => \A name \in Names : file[name] = Absent
  /\ At(p, "confirmed") => file["json"] = Empty
  /\ At(p, "deleting") => file["json"] = IF program[p].at = 1 THEN Empty ELSE Absent

\* What a login has read is of the registration that identity.json still holds.
Reading(p) == (At(p, "loading") /\ program[p].at > 1) \/ At(p, "loaded")

ReadsOne(p) ==
  Reading(p) =>
    /\ program[p].read["json"] \in 1 .. MaxRegistrations
    /\ file["json"] = program[p].read["json"]
    /\ \A name \in Parts :
         program[p].read[name] \in {Absent, Empty, program[p].read["json"]}

Kept == Backed /\ Alone /\ \A p \in Programs : Saved(p) /\ Found(p) /\ ReadsOne(p)

Inv == TypeOK /\ Places /\ (~clash => Kept)

----------------------------------------------------------------------------
(* What the steps do to the programs.                                      *)

\* The fields of a program, each of its type.
LEMMA ProgramFields ==
  ASSUME NEW r \in Program
  PROVE  /\ r.step \in Steps /\ r.at \in 1 .. 6 /\ r.open \in {"no", "yes", "lost"}
         /\ r.mine \in Contents /\ r.read \in [Parts -> Contents]
BY FilesAre DEF Program

\* A program that is changed into another.
LEMMA OneChanged ==
  ASSUME NEW f \in [Programs -> Program], NEW p \in Programs, NEW r \in Program,
         NEW g, g = [f EXCEPT ![p] = r]
  PROVE  /\ g \in [Programs -> Program]
         /\ g[p] = r
         /\ \A q \in Programs : q # p => g[q] = f[q]
OBVIOUS

LEMMA IdleIsProgram == Idle \in Program
<1>1. 1 \in DOMAIN Files /\ Absent \in Contents
  BY FilesAre DEF Contents
<1> QED
  BY <1>1 DEF Idle, Program, Steps

LEMMA GoToDoes ==
  ASSUME program \in [Programs -> Program], NEW p \in Programs, NEW step \in Steps, GoTo(p, step)
  PROVE  /\ program' \in [Programs -> Program]
         /\ program'[p].step = step
         /\ program'[p].at = program[p].at /\ program'[p].open = program[p].open
         /\ program'[p].mine = program[p].mine /\ program'[p].read = program[p].read
         /\ \A q \in Programs : q # p => program'[q] = program[q]
<1> DEFINE r == [program[p] EXCEPT !.step = step]
<1>1. r \in Program /\ r.step = step /\ r.at = program[p].at /\ r.open = program[p].open
      /\ r.mine = program[p].mine /\ r.read = program[p].read
  BY DEF Program
<1>2. program' = [program EXCEPT ![p] = r]
  BY DEF GoTo
<1> HIDE DEF r
<1> QED
  BY <1>1, <1>2, OneChanged

LEMMA EndDoes ==
  ASSUME program \in [Programs -> Program], NEW p \in Programs, End(p)
  PROVE  /\ program' \in [Programs -> Program]
         /\ program'[p] = Idle
         /\ \A q \in Programs : q # p => program'[q] = program[q]
BY IdleIsProgram, OneChanged DEF End

LEMMA NextFileDoes ==
  ASSUME program \in [Programs -> Program], NEW p \in Programs, NextFile(p),
         program[p].at < 6
  PROVE  /\ program' \in [Programs -> Program]
         /\ program'[p].step = program[p].step
         /\ program'[p].at = program[p].at + 1 /\ program'[p].open = "no"
         /\ program'[p].mine = program[p].mine /\ program'[p].read = program[p].read
         /\ \A q \in Programs : q # p => program'[q] = program[q]
<1> DEFINE r == [program[p] EXCEPT !.at = program[p].at + 1, !.open = "no"]
<1>0. program[p].at + 1 \in DOMAIN Files
  BY ProgramFields, FilesAre
<1>1. r \in Program /\ r.step = program[p].step /\ r.at = program[p].at + 1 /\ r.open = "no"
      /\ r.mine = program[p].mine /\ r.read = program[p].read
  BY <1>0 DEF Program
<1>2. program' = [program EXCEPT ![p] = r]
  BY DEF NextFile
<1> HIDE DEF r
<1> QED
  BY <1>1, <1>2, OneChanged
SavesAs(p, step, n) == program' = [program EXCEPT ![p].step = step, ![p].mine = n]

LEMMA SaveBegins ==
  ASSUME program \in [Programs -> Program], NEW p \in Programs,
         NEW step \in Steps, NEW n \in Contents,
         SavesAs(p, step, n)
  PROVE  /\ program' \in [Programs -> Program]
         /\ program'[p].step = step
         /\ program'[p].at = program[p].at /\ program'[p].open = program[p].open
         /\ program'[p].mine = n /\ program'[p].read = program[p].read
         /\ \A q \in Programs : q # p => program'[q] = program[q]
<1> DEFINE r == [program[p] EXCEPT !.step = step, !.mine = n]
<1>1. r \in Program /\ r.step = step /\ r.at = program[p].at /\ r.open = program[p].open
      /\ r.mine = n /\ r.read = program[p].read
  BY DEF Program
<1>2. program' = [program EXCEPT ![p] = r]
  BY DEF SavesAs
<1> HIDE DEF r
<1>3. /\ program' \in [Programs -> Program]
      /\ program'[p] = r
      /\ \A q \in Programs : q # p => program'[q] = program[q]
  BY <1>1, <1>2, OneChanged
<1> QED
  BY <1>1, <1>3

LEMMA FileOpens ==
  ASSUME program \in [Programs -> Program], NEW p \in Programs,
         program' = [program EXCEPT ![p].open = "yes"]
  PROVE  /\ program' \in [Programs -> Program]
         /\ program'[p].step = program[p].step
         /\ program'[p].at = program[p].at /\ program'[p].open = "yes"
         /\ program'[p].mine = program[p].mine /\ program'[p].read = program[p].read
         /\ \A q \in Programs : q # p => program'[q] = program[q]
<1> DEFINE r == [program[p] EXCEPT !.open = "yes"]
<1>1. r \in Program /\ r.step = program[p].step /\ r.at = program[p].at /\ r.open = "yes"
      /\ r.mine = program[p].mine /\ r.read = program[p].read
  BY DEF Program
<1>2. program' = [program EXCEPT ![p] = r]
  OBVIOUS
<1> HIDE DEF r
<1> QED
  BY <1>1, <1>2, OneChanged

Reads(p, parts) == program' = [program EXCEPT ![p].at = @ + 1, ![p].read = parts]

LEMMA FileRead ==
  ASSUME program \in [Programs -> Program], NEW p \in Programs, NEW parts \in [Parts -> Contents],
         program[p].at < 6,
         Reads(p, parts)
  PROVE  /\ program' \in [Programs -> Program]
         /\ program'[p].step = program[p].step
         /\ program'[p].at = program[p].at + 1 /\ program'[p].open = program[p].open
         /\ program'[p].mine = program[p].mine /\ program'[p].read = parts
         /\ \A q \in Programs : q # p => program'[q] = program[q]
<1> DEFINE r == [program[p] EXCEPT !.at = program[p].at + 1, !.read = parts]
<1>0. program[p].at + 1 \in DOMAIN Files
  BY ProgramFields, FilesAre
<1>1. r \in Program /\ r.step = program[p].step /\ r.at = program[p].at + 1
      /\ r.open = program[p].open /\ r.mine = program[p].mine /\ r.read = parts
  BY <1>0 DEF Program
<1>2. program' = [program EXCEPT ![p] = r]
  BY DEF Reads
<1> HIDE DEF r
<1>3. /\ program' \in [Programs -> Program]
      /\ program'[p] = r
      /\ \A q \in Programs : q # p => program'[q] = program[q]
  BY <1>1, <1>2, OneChanged
<1> QED
  BY <1>1, <1>3

ReadsLast(p, parts) ==
  program' = [program EXCEPT ![p].step = "loaded", ![p].read = parts]

LEMMA LastRead ==
  ASSUME program \in [Programs -> Program], NEW p \in Programs, NEW parts \in [Parts -> Contents],
         ReadsLast(p, parts)
  PROVE  /\ program' \in [Programs -> Program]
         /\ program'[p].step = "loaded"
         /\ program'[p].at = program[p].at /\ program'[p].open = program[p].open
         /\ program'[p].mine = program[p].mine /\ program'[p].read = parts
         /\ \A q \in Programs : q # p => program'[q] = program[q]
<1> DEFINE r == [program[p] EXCEPT !.step = "loaded", !.read = parts]
<1>0. "loaded" \in Steps
  BY DEF Steps
<1>1. r \in Program /\ r.step = "loaded" /\ r.at = program[p].at
      /\ r.open = program[p].open /\ r.mine = program[p].mine /\ r.read = parts
  BY <1>0 DEF Program
<1>2. program' = [program EXCEPT ![p] = r]
  BY DEF ReadsLast
<1> HIDE DEF r
<1>3. /\ program' \in [Programs -> Program]
      /\ program'[p] = r
      /\ \A q \in Programs : q # p => program'[q] = program[q]
  BY <1>1, <1>2, OneChanged
<1> QED
  BY <1>1, <1>3

\* A deletion changes, beside the program that deletes, at most which file another
\* one has open.
LEMMA DeletedDoes ==
  ASSUME program \in [Programs -> Program], NEW p \in Programs
  PROVE  /\ Deleted(p) \in [Programs -> Program]
         /\ \A q \in Programs :
              /\ Deleted(p)[q].step = program[q].step /\ Deleted(p)[q].at = program[q].at
              /\ Deleted(p)[q].mine = program[q].mine /\ Deleted(p)[q].read = program[q].read
              /\ program[q].open # "yes" => Deleted(p)[q] = program[q]
<1> SUFFICES ASSUME NEW q \in Programs
             PROVE  /\ Deleted(p)[q] \in Program
                    /\ Deleted(p)[q].step = program[q].step /\ Deleted(p)[q].at = program[q].at
                    /\ Deleted(p)[q].mine = program[q].mine
                    /\ Deleted(p)[q].read = program[q].read
                    /\ program[q].open # "yes" => Deleted(p)[q] = program[q]
  BY DEF Deleted
<1> DEFINE r == [program[q] EXCEPT !.open = "lost"]
<1>1. r \in Program /\ r.step = program[q].step /\ r.at = program[q].at
      /\ r.mine = program[q].mine /\ r.read = program[q].read
  BY DEF Program
<1>2. Deleted(p)[q] = program[q] \/ (Deleted(p)[q] = r /\ program[q].open = "yes")
  BY DEF Deleted
<1> HIDE DEF r
<1> QED
  BY <1>1, <1>2

LEMMA DeleteGoesOn ==
  ASSUME program \in [Programs -> Program], NEW p \in Programs, program[p].at < 6,
         program' = [Deleted(p) EXCEPT ![p].at = @ + 1], program[p].open = "no"
  PROVE  /\ program' \in [Programs -> Program]
         /\ program'[p].step = program[p].step /\ program'[p].at = program[p].at + 1
         /\ program'[p].open = "no"
         /\ program'[p].mine = program[p].mine /\ program'[p].read = program[p].read
         /\ \A q \in Programs : q # p => program'[q] = Deleted(p)[q]
<1> DEFINE r == [program[p] EXCEPT !.at = program[p].at + 1]
<1>0. program[p].at + 1 \in DOMAIN Files
  BY ProgramFields, FilesAre
<1>1. r \in Program /\ r.step = program[p].step /\ r.at = program[p].at + 1
      /\ r.open = "no" /\ r.mine = program[p].mine /\ r.read = program[p].read
  BY <1>0 DEF Program
<1>2. Deleted(p) \in [Programs -> Program] /\ Deleted(p)[p] = program[p]
  BY DeletedDoes
<1>3. program' = [Deleted(p) EXCEPT ![p] = r]
  BY <1>2
<1> HIDE DEF r
<1> QED
  BY <1>1, <1>2, <1>3, OneChanged

LEMMA DeleteEnds ==
  ASSUME program \in [Programs -> Program], NEW p \in Programs,
         program' = [Deleted(p) EXCEPT ![p] = Idle]
  PROVE  /\ program' \in [Programs -> Program]
         /\ program'[p] = Idle
         /\ \A q \in Programs : q # p => program'[q] = Deleted(p)[q]
BY DeletedDoes, IdleIsProgram, OneChanged
----------------------------------------------------------------------------
(* Types and places.                                                       *)

\* All that TypeOK and Places say of one program.
LEMMA PlaceStays ==
  ASSUME TypeOK, Places, program' \in [Programs -> Program],
         NEW p \in Programs,
         \A q \in Programs : q # p => Place(q)',
         Place(p)'
  PROVE  Places'
BY DEF Places

\* A program that is not touched keeps its place.
LEMMA OthersStay ==
  ASSUME Places, NEW p \in Programs,
         \A q \in Programs : q # p => program'[q] = program[q]
  PROVE  \A q \in Programs : q # p => Place(q)'
BY DEF Places, Place, At, Saving

\* The other variables keep their types.
RestTyped ==
  /\ file' \in [Names -> Contents] /\ home' \in BOOLEAN /\ clash' \in BOOLEAN
  /\ made' \in Seq(Passcodes) /\ Len(made') <= MaxRegistrations

LEMMA EndKeepsTypes ==
  ASSUME TypeOK, Places, NEW p \in Programs, End(p), RestTyped
  PROVE  TypeOK' /\ Places'
<1>1. program' \in [Programs -> Program] /\ program'[p] = Idle
      /\ \A q \in Programs : q # p => program'[q] = program[q]
  BY EndDoes DEF TypeOK
<1>2. TypeOK'
  BY <1>1 DEF TypeOK, RestTyped
<1>3. Place(p)'
  BY <1>1 DEF Place, At, Saving, Idle
<1> QED
  BY <1>1, <1>2, <1>3, OthersStay, PlaceStays

LEMMA BeginKeepsTypes ==
  ASSUME TypeOK, Places, NEW p \in Programs,
         NEW step \in {"typing", "confirming", "loading"}, Begin(p, step), clash' \in BOOLEAN
  PROVE  TypeOK' /\ Places'
<1>1. program[p] = Idle /\ step \in Steps
  BY DEF Begin, Places, Place, Steps
<1>2. /\ program' \in [Programs -> Program]
      /\ program'[p].step = step /\ program'[p].at = 1 /\ program'[p].open = "no"
      /\ program'[p].read = Idle.read
      /\ \A q \in Programs : q # p => program'[q] = program[q]
  BY <1>1, GoToDoes DEF Begin, TypeOK, Idle
<1>3. TypeOK'
  <2>1. /\ file' \in [Names -> Contents] /\ home' \in BOOLEAN
        /\ made' \in Seq(Passcodes) /\ Len(made') <= MaxRegistrations
    BY DEF Begin, TypeOK
  <2> QED
    BY <1>2, <2>1 DEF TypeOK
<1>4. Place(p)'
  BY <1>2 DEF Place, At, Saving
<1> QED
  BY <1>2, <1>3, <1>4, OthersStay, PlaceStays

LEMMA TypesKept == TypeOK /\ Places /\ [Next]_vars => TypeOK' /\ Places'
<1> SUFFICES ASSUME TypeOK, Places, [Next]_vars
             PROVE  TypeOK' /\ Places'
  OBVIOUS
<1> USE RegistrationsAssumption
<1>1. CASE UNCHANGED vars
  BY <1>1 DEF vars, TypeOK, Places, Place, At, Saving
<1>2. ASSUME NEW p \in Programs, Register(p)
      PROVE  TypeOK' /\ Places'
  <2>1. clash' \in BOOLEAN
    BY <1>2, Zenon DEF Register, BeginChange
  <2> QED
    BY <1>2, <2>1, BeginKeepsTypes DEF Register, BeginChange
<1>3. ASSUME NEW p \in Programs, Reset(p)
      PROVE  TypeOK' /\ Places'
  <2>1. clash' \in BOOLEAN
    BY <1>3, Zenon DEF Reset, BeginChange
  <2> QED
    BY <1>3, <2>1, BeginKeepsTypes DEF Reset, BeginChange
<1>4. ASSUME NEW p \in Programs, Load(p)
      PROVE  TypeOK' /\ Places'
  BY <1>4, BeginKeepsTypes DEF Load, TypeOK
<1>5. ASSUME NEW p \in Programs, Create(p)
      PROVE  TypeOK' /\ Places'
  <2>1. /\ file' \in [Names -> Contents] /\ home' \in BOOLEAN /\ clash' \in BOOLEAN
    BY <1>5 DEF Create, TypeOK
  <2>2. program[p].at = 1 /\ program[p].open = "no"
    BY <1>5 DEF Create, Places, Place, At, Saving
  <2>3. CASE End(p) /\ UNCHANGED made
    BY <2>1, <2>3, EndKeepsTypes DEF RestTyped, TypeOK
  <2>4. ASSUME NEW step \in {"save", "save_all"}, NEW second \in Passcodes,
               Len(made) < MaxRegistrations, made' = Append(made, second),
               SavesAs(p, step, Len(made'))
        PROVE  TypeOK' /\ Places'
    <3>1. made' \in Seq(Passcodes) /\ Len(made') = Len(made) + 1 /\ Len(made) \in Nat
      BY <2>4 DEF TypeOK
    <3>2. Len(made') \in 1 .. MaxRegistrations /\ Len(made') <= MaxRegistrations
      BY <2>4, <3>1
    <3>3. Len(made') \in Contents /\ step \in Steps
      BY <3>2 DEF Contents, Steps
    <3>4. /\ program' \in [Programs -> Program]
          /\ program'[p].step = step /\ program'[p].at = 1 /\ program'[p].open = "no"
          /\ program'[p].mine = Len(made')
          /\ \A q \in Programs : q # p => program'[q] = program[q]
      BY <2>2, <2>4, <3>3, SaveBegins DEF TypeOK
    <3>5. TypeOK'
      BY <2>1, <3>1, <3>2, <3>4 DEF TypeOK
    <3>6. Place(p)'
      BY <3>2, <3>4 DEF Place, At, Saving
    <3> QED
      BY <3>4, <3>5, <3>6, OthersStay, PlaceStays
  <2> QED
    BY <1>5, <2>3, <2>4 DEF Create, SavesAs
<1>6. ASSUME NEW p \in Programs, SaveOpen(p)
      PROVE  TypeOK' /\ Places'
  <2>1. /\ home' \in BOOLEAN /\ clash' \in BOOLEAN
        /\ made' \in Seq(Passcodes) /\ Len(made') <= MaxRegistrations
    BY <1>6 DEF SaveOpen, TypeOK
  <2>2. CASE End(p) /\ UNCHANGED file
    BY <2>1, <2>2, EndKeepsTypes DEF RestTyped, TypeOK
  <2>3. CASE /\ file' = [file EXCEPT ![Current(p)] = Empty]
             /\ program' = [program EXCEPT ![p].open = "yes"]
    <3>1. Current(p) \in Names /\ Empty \in Contents
      BY FilesAreNames, ProgramFields DEF TypeOK, Current, Contents
    <3>2. file' \in [Names -> Contents]
      BY <2>3, <3>1 DEF TypeOK
    <3>3. /\ program' \in [Programs -> Program]
          /\ program'[p].step = program[p].step /\ program'[p].at = program[p].at
          /\ program'[p].mine = program[p].mine
          /\ \A q \in Programs : q # p => program'[q] = program[q]
      BY <2>3, FileOpens DEF TypeOK
    <3>4. Place(p)'
      BY <1>6, <3>3 DEF Places, Place, At, Saving, SaveOpen
    <3>5. TypeOK'
      BY <2>1, <3>2, <3>3 DEF TypeOK
    <3> QED
      BY <3>3, <3>4, <3>5, OthersStay, PlaceStays
  <2> QED
    BY <1>6, <2>2, <2>3 DEF SaveOpen
<1>7. ASSUME NEW p \in Programs, SaveClose(p)
      PROVE  TypeOK' /\ Places'
  <2>1. /\ home' \in BOOLEAN /\ clash' \in BOOLEAN
        /\ made' \in Seq(Passcodes) /\ Len(made') <= MaxRegistrations
    BY <1>7 DEF SaveClose, TypeOK
  <2>2. file' \in [Names -> Contents]
    BY <1>7, FilesAreNames, ProgramFields DEF SaveClose, TypeOK, Current
  <2>3. CASE LastSaved(p)
    BY <1>7, <2>1, <2>2, <2>3, EndKeepsTypes DEF RestTyped, SaveClose
  <2>4. CASE ~LastSaved(p)
    <3>1. program[p].at \in 1 .. 6 /\ program[p].mine \in 1 .. MaxRegistrations
      BY <1>7, ProgramFields DEF TypeOK, SaveClose, Places, Place
    <3>2. program[p].at < 6 /\ (At(p, "save") => program[p].at < 5)
      BY <1>7, <2>4, <3>1 DEF SaveClose, Saving, At, LastSaved, Places, Place
    <3>3. /\ program' \in [Programs -> Program]
          /\ program'[p].step = program[p].step /\ program'[p].at = program[p].at + 1
          /\ program'[p].mine = program[p].mine
          /\ \A q \in Programs : q # p => program'[q] = program[q]
      BY <1>7, <2>4, <3>2, NextFileDoes DEF TypeOK, SaveClose
    <3>4. Place(p)'
      BY <1>7, <3>1, <3>2, <3>3 DEF Place, At, Saving, SaveClose
    <3>5. TypeOK'
      BY <2>1, <2>2, <3>3 DEF TypeOK
    <3> QED
      BY <3>3, <3>4, <3>5, OthersStay, PlaceStays
  <2> QED
    BY <2>3, <2>4
<1>8. ASSUME NEW p \in Programs, ResetLoad(p) \/ ResetYes(p)
      PROVE  TypeOK' /\ Places'
  <2>1. RestTyped
    BY <1>8 DEF ResetLoad, ResetYes, TypeOK, RestTyped
  <2>2. CASE End(p)
    BY <2>1, <2>2, EndKeepsTypes
  <2>3. ASSUME NEW step \in {"confirmed", "deleting"}, GoTo(p, step)
        PROVE  TypeOK' /\ Places'
    <3>1. program[p].at = 1 /\ program[p].open = "no" /\ step \in Steps
      BY <1>8 DEF ResetLoad, ResetYes, Places, Place, At, Saving, Steps
    <3>2. /\ program' \in [Programs -> Program]
          /\ program'[p].step = step /\ program'[p].at = 1 /\ program'[p].open = "no"
          /\ \A q \in Programs : q # p => program'[q] = program[q]
      BY <2>3, <3>1, GoToDoes DEF TypeOK
    <3>3. Place(p)'
      BY <3>2 DEF Place, At, Saving
    <3>4. TypeOK'
      BY <2>1, <3>2 DEF TypeOK, RestTyped
    <3> QED
      BY <3>2, <3>3, <3>4, OthersStay, PlaceStays
  <2> QED
    BY <1>8, <2>2, <2>3 DEF ResetLoad, ResetYes
<1>9. ASSUME NEW p \in Programs, Delete(p)
      PROVE  TypeOK' /\ Places'
  <2>1. /\ clash' \in BOOLEAN
        /\ made' \in Seq(Passcodes) /\ Len(made') <= MaxRegistrations
    BY <1>9 DEF Delete, TypeOK
  <2>2. file' \in [Names -> Contents]
    <3>1. Current(p) \in Names /\ Absent \in Contents
      BY FilesAreNames, ProgramFields DEF TypeOK, Current, Contents
    <3> QED
      BY <1>9, <3>1 DEF Delete, TypeOK
  <2>3. home' \in BOOLEAN
    BY <1>9, Zenon DEF Delete, TypeOK
  <2>4. program[p].open = "no" /\ ~Saving(p)
    BY <1>9 DEF Delete, Places, Place, At, Saving
  <2>5. ASSUME NEW q \in Programs, q # p, program'[q] = Deleted(p)[q]
        PROVE  Place(q)'
    <3>1. /\ program'[q].step = program[q].step /\ program'[q].at = program[q].at
          /\ program'[q].mine = program[q].mine
          /\ program[q].open # "yes" => program'[q] = program[q]
      BY <2>5, DeletedDoes DEF TypeOK
    <3>2. Place(q)
      BY DEF Places
    <3>3. CASE program[q].open = "yes"
      <4>1. Saving(q)
        BY <3>2, <3>3 DEF Place
      <4> QED
        BY <3>1, <3>2, <4>1 DEF Place, At, Saving
    <3>4. CASE program[q].open # "yes"
      <4>1. program'[q] = program[q]
        BY <3>1, <3>4
      <4> QED
        BY <3>2, <4>1, Zenon DEF Place, At, Saving
    <3> QED
      BY <3>3, <3>4
  <2>6. /\ program' \in [Programs -> Program]
        /\ \A q \in Programs : q # p => program'[q] = Deleted(p)[q]
        /\ \/ program'[p] = Idle
           \/ program'[p].step = "deleting" /\ program'[p].open = "no"
    BY <1>9, <2>4, DeleteGoesOn, DeleteEnds, FilesAre DEF Delete, At, TypeOK
  <2>7. Place(p)'
    BY <2>6 DEF Place, At, Saving, Idle
  <2>8. TypeOK'
    BY <2>1, <2>2, <2>3, <2>6 DEF TypeOK
  <2> QED
    BY <2>5, <2>6, <2>7, <2>8, PlaceStays
<1>10. ASSUME NEW p \in Programs, LoadFile(p)
       PROVE  TypeOK' /\ Places'
  <2>1. RestTyped
    BY <1>10 DEF LoadFile, TypeOK, RestTyped
  <2>2. CASE End(p)
    BY <2>1, <2>2, EndKeepsTypes
  <2>3. ASSUME NEW parts \in [Parts -> Contents],
               (Reads(p, parts) /\ Current(p) # "salt") \/ ReadsLast(p, parts)
        PROVE  TypeOK' /\ Places'
    <3>1. program[p].at \in 1 .. 5 /\ program[p].open = "no"
      BY <1>10, ProgramFields DEF LoadFile, TypeOK, Places, Place, At, Saving
    <3>2. Current(p) # "salt" => program[p].at < 5
      BY <3>1, FilesAre DEF Current
    <3>3. /\ program' \in [Programs -> Program]
          /\ program'[p].open = "no"
          /\ \/ program'[p].step = "loading" /\ program'[p].at \in 2 .. 5
             \/ program'[p].step = "loaded"
          /\ \A q \in Programs : q # p => program'[q] = program[q]
      <4>1. CASE Reads(p, parts) /\ Current(p) # "salt"
        <5>1. program[p].at < 6 /\ program[p].at + 1 \in 2 .. 5 /\ program[p].step = "loading"
          BY <1>10, <3>1, <3>2, <4>1 DEF LoadFile, At
        <5> QED
          BY <3>1, <4>1, <5>1, FileRead DEF TypeOK
      <4>2. CASE ReadsLast(p, parts)
        BY <3>1, <4>2, LastRead DEF TypeOK
      <4> QED
        BY <2>3, <4>1, <4>2
    <3>4. Place(p)'
      BY <3>3 DEF Place, At, Saving
    <3>5. TypeOK'
      BY <2>1, <3>3 DEF TypeOK, RestTyped
    <3> QED
      BY <3>3, <3>4, <3>5, OthersStay, PlaceStays
  <2>4. [program[p].read EXCEPT ![Current(p)] = file[Current(p)]] \in [Parts -> Contents]
    BY ProgramFields, FilesAreNames DEF TypeOK, Current
  <2> QED
    BY <1>10, <2>2, <2>3, <2>4 DEF LoadFile, Reads, ReadsLast
<1>11. ASSUME NEW p \in Programs, Leave(p) \/ Crash(p)
       PROVE  TypeOK' /\ Places'
  <2>1. RestTyped /\ End(p)
    BY <1>11 DEF Leave, Crash, TypeOK, RestTyped
  <2> QED
    BY <2>1, EndKeepsTypes
<1> QED
  BY <1>1, <1>2, <1>3, <1>4, <1>5, <1>6, <1>7, <1>8, <1>9, <1>10, <1>11 DEF Next
----------------------------------------------------------------------------
(* The rest of the invariant.                                              *)

LEMMA ContentsAre ==
  /\ Absent \in Contents /\ Empty \in Contents
  /\ \A c \in Contents : c \notin {Absent, Empty} <=> c \in 1 .. MaxRegistrations
BY RegistrationsAssumption DEF Contents, Absent, Empty

\* A step of one program keeps what it does not break itself: the others change no
\* files, and those that log in have read what stays in identity.json.
LEMMA KeptByOne ==
  ASSUME TypeOK, Kept, NEW p \in Programs,
         \A q \in Programs : q # p => program'[q] = program[q],
         file' = file \/ Changing(p),
         Changing(p)' => Changing(p) \/ \A q \in Programs : ~Changing(q),
         file["json"] \in 1 .. MaxRegistrations => file'["json"] = file["json"],
         Backed', Saved(p)', Found(p)', ReadsOne(p)'
  PROVE  Kept'
<1>1. Alone'
  BY DEF Kept, Alone, Changing
<1>2. ASSUME NEW q \in Programs, q # p
      PROVE  Saved(q)' /\ Found(q)' /\ ReadsOne(q)'
  <2>1. Saved(q) /\ Found(q) /\ ReadsOne(q)
    BY DEF Kept
  <2>2. program'[q] = program[q]
    BY <1>2
  <2>3. file' = file \/ ~Changing(q)
    BY <1>2 DEF Kept, Alone
  <2>4. Saved(q)' /\ Found(q)'
    <3>1. CASE file' = file
      BY <2>1, <2>2, <3>1 DEF Saved, Found, Saving, At, Current
    <3>2. CASE ~Changing(q)
      BY <2>2, <3>2 DEF Saved, Found, Saving, At, Changing
    <3> QED
      BY <2>3, <3>1, <3>2
  <2>5. ReadsOne(q)'
    BY <2>1, <2>2 DEF ReadsOne, Reading, At
  <2> QED
    BY <2>4, <2>5
<1> QED
  BY <1>1, <1>2 DEF Kept

\* An idle program breaks nothing.
LEMMA KeptByEnd ==
  ASSUME TypeOK, Kept, NEW p \in Programs, End(p),
         file' = file \/ Changing(p),
         file["json"] \in 1 .. MaxRegistrations => file'["json"] = file["json"],
         Backed'
  PROVE  Kept'
<1>1. program'[p] = Idle /\ \A q \in Programs : q # p => program'[q] = program[q]
  BY EndDoes DEF TypeOK
<1>2. Saved(p)' /\ Found(p)' /\ ReadsOne(p)' /\ ~Changing(p)'
  BY <1>1 DEF Saved, Found, ReadsOne, Reading, Saving, At, Changing, Idle
<1> QED
  BY <1>1, <1>2, KeptByOne

LEMMA BackedSame == Backed /\ file' = file => Backed'
BY DEF Backed

\* The two moments of writing a file, and what they make of the list.
LEMMA Written ==
  ASSUME TypeOK, Places, Kept, NEW p \in Programs, Saving(p),
         NEW c \in {Empty, program[p].mine},
         c = Empty => program[p].open = "no",
         file' = [file EXCEPT ![Current(p)] = c]
  PROVE  /\ Backed'
         /\ file["json"] \in 1 .. MaxRegistrations => file'["json"] = file["json"]
         /\ file'[Current(p)] = c
         /\ \A k \in 1 .. 6 : /\ k < program[p].at => file'[Files[k]] = program[p].mine
                              /\ k > program[p].at => file'[Files[k]] = Absent
<1> DEFINE at == program[p].at
           mine == program[p].mine
<1>1. at \in 1 .. 6 /\ mine \in 1 .. MaxRegistrations /\ Current(p) = Files[at]
  BY ProgramFields DEF TypeOK, Places, Place, Current
<1>2. Saved(p)
  BY DEF Kept
<1>3. \A k \in 1 .. 6 : /\ k < at => file[Files[k]] = mine
                        /\ k > at => file[Files[k]] = Absent
  BY <1>2 DEF Saved
<1>4. file[Files[at]] \in {Absent, Empty}
  BY <1>1, <1>2 DEF Saved
<1>5. file'[Files[at]] = c /\ \A k \in 1 .. 6 : k # at => file'[Files[k]] = file[Files[k]]
  BY <1>1, FilesDiffer, FilesAreNames DEF TypeOK
<1>6. Files[1] = "json" /\ 1 \in 1 .. 6
  BY FilesAre
<1> HIDE DEF at, mine
<1>7. mine \notin {Absent, Empty} /\ Absent \notin 1 .. MaxRegistrations /\ Empty \notin 1 .. MaxRegistrations
  BY <1>1, RegistrationsAssumption DEF Absent, Empty
<1>8. CASE at = 1
  <2>1. \A name \in Names \ {"json"} : file'[name] = Absent
    BY <1>1, <1>3, <1>5, <1>6, <1>8, FilesAreNames
  <2>2. Backed'
    BY <1>5, <1>6, <1>8, <2>1 DEF Backed
  <2>3. file["json"] \notin 1 .. MaxRegistrations
    BY <1>4, <1>6, <1>7, <1>8
  <2> QED
    BY <1>1, <1>3, <1>5, <2>2, <2>3 DEF at, mine
<1>9. CASE at # 1
  <2>1. file["json"] = mine /\ file'["json"] = mine
    BY <1>1, <1>3, <1>5, <1>6, <1>9
  <2>2. ASSUME NEW k \in 1 .. 6
        PROVE  file'[Files[k]] \in {Absent, Empty, mine}
    <3>1. c \in {Empty, mine}
      BY DEF mine
    <3>2. CASE k = at
      BY <1>5, <3>1, <3>2
    <3>3. CASE k # at
      BY <1>1, <1>3, <1>5, <3>3
    <3> QED
      BY <3>2, <3>3
  <2>3. Backed'
    BY <1>7, <2>1, <2>2, FilesAreNames DEF Backed
  <2> QED
    BY <1>1, <1>3, <1>5, <2>1, <2>3 DEF at, mine
<1> QED
  BY <1>8, <1>9
LEMMA KeptKept == TypeOK /\ Places /\ Kept /\ [Next]_vars /\ ~clash' => Kept'
<1> SUFFICES ASSUME TypeOK, Places, Kept, [Next]_vars, ~clash'
             PROVE  Kept'
  OBVIOUS
<1> USE RegistrationsAssumption
<1>1. CASE UNCHANGED vars
  BY <1>1 DEF vars, Kept, Backed, Alone, Changing, Saved, Found, ReadsOne, Reading, Saving,
              At, Current
<1>2. ASSUME NEW p \in Programs, NEW step \in {"typing", "confirming"}, BeginChange(p, step),
             step = "typing" => file["json"] = Absent
      PROVE  Kept'
  <2>1. program[p] = Idle /\ step \in Steps /\ file' = file
    BY <1>2 DEF BeginChange, Begin, Places, Place, Steps
  <2>2. /\ program'[p].step = step
        /\ \A q \in Programs : q # p => program'[q] = program[q]
    BY <1>2, <2>1, GoToDoes DEF BeginChange, Begin, TypeOK
  <2>3. \A q \in Programs : ~Changing(q)
    BY <1>2 DEF BeginChange
  <2>4. step = "typing" => \A name \in Names : file[name] = Absent
    BY <1>2 DEF Kept, Backed
  <2>5. Saved(p)' /\ Found(p)' /\ ReadsOne(p)'
    BY <2>1, <2>2, <2>4 DEF Saved, Found, ReadsOne, Reading, Saving, At
  <2>6. Backed'
    BY <2>1, BackedSame DEF Kept
  <2> QED
    BY <2>1, <2>2, <2>3, <2>5, <2>6, KeptByOne
<1>3. ASSUME NEW p \in Programs, Register(p) \/ Reset(p)
      PROVE  Kept'
  BY <1>2, <1>3 DEF Register, Reset
<1>4. ASSUME NEW p \in Programs, Load(p)
      PROVE  Kept'
  <2>1. program[p] = Idle /\ "loading" \in Steps /\ file' = file
    BY <1>4 DEF Load, Begin, Places, Place, Steps
  <2>2. /\ program'[p].step = "loading" /\ program'[p].at = 1
        /\ \A q \in Programs : q # p => program'[q] = program[q]
    BY <1>4, <2>1, GoToDoes DEF Load, Begin, TypeOK, Idle
  <2>3. Saved(p)' /\ Found(p)' /\ ReadsOne(p)' /\ ~Changing(p)'
    BY <2>2 DEF Saved, Found, ReadsOne, Reading, Saving, At, Changing
  <2>4. Backed'
    BY <2>1, BackedSame DEF Kept
  <2> QED
    BY <2>1, <2>2, <2>3, <2>4, KeptByOne
<1>5. ASSUME NEW p \in Programs, Create(p)
      PROVE  Kept'
  <2>1. file' = file /\ Backed'
    BY <1>5, BackedSame DEF Create, Kept
  <2>2. CASE End(p)
    BY <2>1, <2>2, KeptByEnd
  <2>3. ASSUME NEW step \in {"save", "save_all"}, NEW n \in Contents, SavesAs(p, step, n)
        PROVE  Kept'
    <3>1. program[p].at = 1 /\ program[p].open = "no" /\ step \in Steps
      BY <1>5 DEF Create, Places, Place, At, Saving, Steps
    <3>2. /\ program'[p].step = step /\ program'[p].at = 1 /\ program'[p].open = "no"
          /\ \A q \in Programs : q # p => program'[q] = program[q]
      BY <2>3, <3>1, SaveBegins DEF TypeOK
    <3>3. \A name \in Names : file[name] = Absent
      BY <1>5 DEF Create, Kept, Found
    <3>4. \A k \in 1 .. 6 : file'[Files[k]] = Absent
      BY <2>1, <3>3, FilesAreNames
    <3>5. Saved(p)'
      <4>1. file'[Current(p)'] = Absent
        BY <3>2, <3>4 DEF Current
      <4> QED
        BY <3>2, <3>4, <4>1 DEF Saved
    <3>6. Found(p)' /\ ReadsOne(p)'
      BY <3>2 DEF Found, ReadsOne, Reading, At
    <3>7. Changing(p)
      BY <1>5 DEF Create, At, Changing
    <3> QED
      BY <2>1, <3>2, <3>5, <3>6, <3>7, KeptByOne
  <2>4. ASSUME NEW second \in Passcodes, Len(made) < MaxRegistrations,
               made' = Append(made, second)
        PROVE  Len(made') \in Contents
    BY <2>4 DEF TypeOK, Contents
  <2> QED
    BY <1>5, <2>2, <2>3, <2>4 DEF Create, SavesAs
<1>6. ASSUME NEW p \in Programs, SaveOpen(p)
      PROVE  Kept'
  <2>1. CASE End(p) /\ UNCHANGED file
    BY <2>1, KeptByEnd, BackedSame DEF Kept
  <2>2. CASE /\ file' = [file EXCEPT ![Current(p)] = Empty]
             /\ program' = [program EXCEPT ![p].open = "yes"]
    <3>1. Saving(p) /\ program[p].open = "no" /\ Changing(p)
      BY <1>6 DEF SaveOpen, Saving, At, Changing
    <3>2. /\ Backed'
          /\ file["json"] \in 1 .. MaxRegistrations => file'["json"] = file["json"]
          /\ file'[Current(p)] = Empty
          /\ \A k \in 1 .. 6 : /\ k < program[p].at => file'[Files[k]] = program[p].mine
                               /\ k > program[p].at => file'[Files[k]] = Absent
      BY <2>2, <3>1, Written
    <3>3. /\ program'[p].step = program[p].step /\ program'[p].at = program[p].at
          /\ program'[p].open = "yes" /\ program'[p].mine = program[p].mine
          /\ \A q \in Programs : q # p => program'[q] = program[q]
      BY <2>2, FileOpens DEF TypeOK
    <3>4. Saved(p)'
      BY <3>2, <3>3 DEF Saved, Current
    <3>5. Found(p)' /\ ReadsOne(p)'
      BY <3>1, <3>3 DEF Found, ReadsOne, Reading, At, Saving
    <3> QED
      BY <3>1, <3>2, <3>3, <3>4, <3>5, KeptByOne
  <2> QED
    BY <1>6, <2>1, <2>2 DEF SaveOpen
<1>7. ASSUME NEW p \in Programs, SaveClose(p)
      PROVE  Kept'
  <2>1. Saving(p) /\ program[p].open = "yes" /\ Changing(p) /\ program[p].at \in 1 .. 6
    BY <1>7, ProgramFields DEF SaveClose, Saving, At, Changing, Kept, Saved, TypeOK
  <2>2. file' = [file EXCEPT ![Current(p)] = program[p].mine]
    BY <1>7, <2>1 DEF SaveClose
  <2>3. program[p].mine # Empty
    BY <2>1 DEF Places, Place, Empty
  <2>4. /\ Backed'
        /\ file["json"] \in 1 .. MaxRegistrations => file'["json"] = file["json"]
        /\ file'[Current(p)] = program[p].mine
        /\ \A k \in 1 .. 6 : /\ k < program[p].at => file'[Files[k]] = program[p].mine
                             /\ k > program[p].at => file'[Files[k]] = Absent
    BY <2>1, <2>2, <2>3, Written
  <2>5. CASE LastSaved(p)
    BY <1>7, <2>1, <2>4, <2>5, KeptByEnd DEF SaveClose
  <2>6. CASE ~LastSaved(p)
    <3>1. program[p].at < 6
      BY <1>7, <2>1, <2>6 DEF SaveClose, Saving, At, LastSaved, Places, Place
    <3>2. /\ program'[p].step = program[p].step /\ program'[p].at = program[p].at + 1
          /\ program'[p].open = "no" /\ program'[p].mine = program[p].mine
          /\ \A q \in Programs : q # p => program'[q] = program[q]
      BY <1>7, <2>6, <3>1, NextFileDoes DEF SaveClose, TypeOK
    <3>3. \A k \in 1 .. 6 :
            /\ k < program'[p].at => file'[Files[k]] = program'[p].mine
            /\ k > program'[p].at => file'[Files[k]] = Absent
      <4>1. \A k \in 1 .. 6 : k = program[p].at => file'[Files[k]] = program[p].mine
        BY <2>4 DEF Current
      <4>2. \A k \in 1 .. 6 : k < program[p].at + 1 => k < program[p].at \/ k = program[p].at
        BY <2>1
      <4>3. \A k \in 1 .. 6 : k > program[p].at + 1 => k > program[p].at
        BY <2>1
      <4> QED
        BY <2>4, <3>2, <4>1, <4>2, <4>3
    <3>4. file'[Current(p)'] = Absent
      <4>1. program'[p].at \in 1 .. 6 /\ program'[p].at > program[p].at
        BY <2>1, <3>1, <3>2
      <4> QED
        BY <2>4, <4>1 DEF Current
    <3>5. Saved(p)'
      BY <3>2, <3>3, <3>4 DEF Saved
    <3>6. Found(p)' /\ ReadsOne(p)'
      BY <2>1, <3>2 DEF Found, ReadsOne, Reading, At, Saving
    <3> QED
      BY <2>1, <2>4, <3>2, <3>5, <3>6, KeptByOne
  <2> QED
    BY <2>5, <2>6
<1>8. ASSUME NEW p \in Programs, ResetLoad(p) \/ ResetYes(p)
      PROVE  Kept'
  <2>1. file' = file /\ Backed' /\ Changing(p)
    BY <1>8, BackedSame DEF ResetLoad, ResetYes, Kept, Changing, At
  <2>2. CASE End(p)
    BY <2>1, <2>2, KeptByEnd
  <2>3. ASSUME NEW step \in {"confirmed", "deleting"}, GoTo(p, step), file["json"] = Empty
        PROVE  Kept'
    <3>1. program[p].at = 1 /\ step \in Steps
      BY <1>8 DEF ResetLoad, ResetYes, Places, Place, At, Steps
    <3>2. /\ program'[p].step = step /\ program'[p].at = 1
          /\ \A q \in Programs : q # p => program'[q] = program[q]
      BY <2>3, <3>1, GoToDoes DEF TypeOK
    <3>3. Saved(p)' /\ Found(p)' /\ ReadsOne(p)'
      BY <2>1, <2>3, <3>2 DEF Saved, Found, ReadsOne, Reading, At, Saving
    <3> QED
      BY <2>1, <3>2, <3>3, KeptByOne
  <2>4. ResetYes(p) => file["json"] = Empty
    BY DEF ResetYes, Kept, Found
  <2> QED
    BY <1>8, <2>2, <2>3, <2>4 DEF ResetLoad, ResetYes, LoadsWithoutPasscode
<1>9. ASSUME NEW p \in Programs, Delete(p)
      PROVE  Kept'
  <2>1. /\ At(p, "deleting") /\ Changing(p) /\ ~Saving(p) /\ program[p].open = "no"
        /\ program[p].at \in 1 .. 6
    BY <1>9, ProgramFields DEF Delete, At, Changing, Saving, Places, Place, TypeOK
  <2>2. file["json"] = IF program[p].at = 1 THEN Empty ELSE Absent
    BY <2>1 DEF Kept, Found
  <2>3. file["json"] \in {Absent, Empty} /\ file["json"] \notin 1 .. MaxRegistrations
    BY <2>2, ContentsAre
  <2>4. \A name \in Names \ {"json"} : file[name] = Absent
    BY <2>3 DEF Kept, Backed
  <2>5. file' = [file EXCEPT ![Current(p)] = Absent] /\ Current(p) \in Names
    BY <1>9, <2>1, FilesAreNames DEF Delete, Current
  <2>6. program[p].at = 1 => Current(p) = "json"
    BY FilesAre DEF Current
  <2>7. \A name \in Names : file'[name] = Absent
    BY <2>2, <2>4, <2>5, <2>6 DEF TypeOK
  <2>8. "json" \in Names
    BY FilesAre
  <2>9. Backed'
    BY <2>7, <2>8 DEF Backed
  <2>10. \A q \in Programs : q # p => Deleted(p)[q] = program[q]
    <3>1. \A q \in Programs : q # p => ~Changing(q)
      BY <2>1 DEF Kept, Alone
    <3>2. \A q \in Programs : q # p => program[q].open = "no"
      BY <3>1 DEF Changing, Places, Place, Saving, At
    <3> QED
      BY <3>2, DeletedDoes DEF TypeOK
  <2>11. /\ \A q \in Programs : q # p => program'[q] = program[q]
         /\ \/ program'[p] = Idle
            \/ program'[p].step = "deleting" /\ program'[p].at = program[p].at + 1
    BY <1>9, <2>1, <2>10, DeleteGoesOn, DeleteEnds, FilesAre DEF Delete, At, TypeOK
  <2>12. Saved(p)' /\ Found(p)' /\ ReadsOne(p)'
    <3>1. program[p].at + 1 # 1
      BY <2>1
    <3> QED
      BY <2>7, <2>8, <2>11, <3>1 DEF Saved, Found, ReadsOne, Reading, At, Saving, Idle
  <2> QED
    BY <2>1, <2>3, <2>9, <2>11, <2>12, KeptByOne
<1>10. ASSUME NEW p \in Programs, LoadFile(p)
       PROVE  Kept'
  <2>1. file' = file /\ Backed' /\ ~Changing(p) /\ At(p, "loading")
    BY <1>10, BackedSame DEF LoadFile, Kept, Changing, At
  <2>2. CASE End(p)
    BY <2>1, <2>2, KeptByEnd
  <2> DEFINE parts == [program[p].read EXCEPT ![Current(p)] = file[Current(p)]]
  <2>3. /\ program[p].at \in 1 .. 5 /\ program[p].read \in [Parts -> Contents]
        /\ Current(p) = Files[program[p].at]
    BY <2>1, ProgramFields DEF TypeOK, Places, Place, Current
  <2>4. Current(p) \in Parts /\ "json" \in Parts /\ Parts \subseteq Names
        /\ (Current(p) = "json" <=> program[p].at = 1)
        /\ (Current(p) = "salt" => program[p].at = 5)
    BY <2>3, FilesAre
  <2>5. parts \in [Parts -> Contents]
    BY <2>3, <2>4 DEF TypeOK
  <2>6. /\ parts[Current(p)] = file[Current(p)]
        /\ \A name \in Parts : name # Current(p) => parts[name] = program[p].read[name]
    BY <2>3, <2>4
  <2> HIDE DEF parts
  <2>7. ASSUME Current(p) = "json" => parts["json"] \notin {Absent, Empty}
        PROVE  /\ parts["json"] \in 1 .. MaxRegistrations
               /\ file["json"] = parts["json"]
               /\ \A name \in Parts : parts[name] \in {Absent, Empty, parts["json"]}
    <3>1. CASE program[p].at = 1
      <4>1. parts["json"] \in 1 .. MaxRegistrations /\ file["json"] = parts["json"]
        BY <2>4, <2>5, <2>6, <2>7, <3>1, ContentsAre
      <4>2. \A name \in Parts : program[p].read[name] = Absent
        BY <2>1, <3>1 DEF Places, Place, Idle
      <4> QED
        BY <2>4, <2>6, <3>1, <4>1, <4>2
    <3>2. CASE program[p].at # 1
      <4>1. /\ program[p].read["json"] \in 1 .. MaxRegistrations
            /\ file["json"] = program[p].read["json"]
            /\ \A name \in Parts :
                 program[p].read[name] \in {Absent, Empty, program[p].read["json"]}
        <5>1. program[p].at > 1
          BY <2>3, <3>2
        <5> QED
          BY <2>1, <5>1 DEF Kept, ReadsOne, Reading
      <4>2. file[Current(p)] \in {Absent, Empty, file["json"]}
        BY <2>4 DEF Kept, Backed
      <4> QED
        BY <2>4, <2>6, <3>2, <4>1, <4>2
    <3> QED
      BY <3>1, <3>2
  <2>8. ASSUME (Reads(p, parts) /\ Current(p) # "salt") \/ ReadsLast(p, parts),
               Current(p) = "json" => parts["json"] \notin {Absent, Empty}
        PROVE  Kept'
    <3>1. /\ program'[p].step \in {"loading", "loaded"} /\ program'[p].read = parts
          /\ \A q \in Programs : q # p => program'[q] = program[q]
      <4>1. program[p].at < 6 /\ program[p].step = "loading"
        BY <2>1, <2>3 DEF At
      <4>2. CASE Reads(p, parts)
        BY <2>5, <4>1, <4>2, FileRead DEF TypeOK
      <4>3. CASE ReadsLast(p, parts)
        BY <2>5, <4>3, LastRead DEF TypeOK
      <4> QED
        BY <2>8, <4>2, <4>3
    <3>2. ReadsOne(p)'
      BY <2>1, <2>7, <2>8, <3>1 DEF ReadsOne
    <3>3. Saved(p)' /\ Found(p)' /\ ~Changing(p)'
      BY <3>1 DEF Saved, Found, Saving, At, Changing
    <3> QED
      BY <2>1, <3>1, <3>2, <3>3, KeptByOne
  <2> QED
    BY <1>10, <2>2, <2>4, <2>8 DEF LoadFile, Reads, ReadsLast, parts
<1>11. ASSUME NEW p \in Programs, Leave(p) \/ Crash(p)
       PROVE  Kept'
  <2>1. End(p) /\ file' = file /\ Backed'
    BY <1>11, BackedSame DEF Leave, Crash, Kept
  <2> QED
    BY <2>1, KeptByEnd
<1> QED
  BY <1>1, <1>3, <1>4, <1>5, <1>6, <1>7, <1>8, <1>9, <1>10, <1>11 DEF Next
----------------------------------------------------------------------------
(* The theorems.                                                           *)

LEMMA InvInitially == Init => Inv
<1> SUFFICES ASSUME Init
             PROVE  Inv
  OBVIOUS
<1>1. TypeOK
  <2>1. /\ file \in [Names -> Contents] /\ program \in [Programs -> Program]
        /\ made \in Seq(Passcodes) /\ Len(made) <= MaxRegistrations
    BY ContentsAre, IdleIsProgram, RegistrationsAssumption DEF Init
  <2> QED
    BY <2>1 DEF Init, TypeOK
<1>2. Places
  BY DEF Init, Places, Place, At, Saving, Idle
<1>3. Kept
  <2>1. "json" \in Names
    BY FilesAre
  <2> QED
    BY <2>1 DEF Init, Kept, Backed, Alone, Changing, Saved, Found, ReadsOne, Reading, At, Saving, Idle
<1> QED
  BY <1>1, <1>2, <1>3 DEF Inv

LEMMA ClashStays == [Next]_vars /\ ~clash' => ~clash
BY DEF Next, vars, Register, Create, SaveOpen, SaveClose, Reset, ResetLoad, ResetYes, Delete,
       Load, LoadFile, Leave, Crash, BeginChange

LEMMA InvKept == Inv /\ [Next]_vars => Inv'
BY TypesKept, KeptKept, ClashStays DEF Inv

\* Registering, logging in, resetting and dying keep the invariant, in any order in which
\* programs do them.
THEOREM Invariance == Spec => []Inv
BY InvInitially, InvKept, PTL DEF Spec

\* Every variable has its type, and no program leaves the list of files
\* (orca_identity_save, orca_identity_from_json, orca_identity_reset).
THEOREM TypeCorrect == Spec => []TypeOK
<1>1. Inv => TypeOK
  BY DEF Inv
<1> QED
  BY Invariance, <1>1, PTL

\* What is there are at most parts of one registration, and a set of at most one.
LEMMA OneSource ==
  ASSUME NEW S, NEW c, S \subseteq {c}
  PROVE  Cardinality(S) <= 1
<1>1. Cardinality({c}) = 1 /\ IsFiniteSet({c})
  BY FS_Singleton
<1> QED
  BY <1>1, FS_Subset

\* However many programs register, reset and die (orca_identity_save,
\* orca_identity_reset), the files are never those of two registrations, and
\* identity.json is there whenever another one is.
THEOREM NeverMixedHolds == Spec => []NeverMixed
<1>1. Inv => NeverMixed
  <2> SUFFICES ASSUME Inv, ~clash
               PROVE  /\ Cardinality(Sources(file)) <= 1
                      /\ \A name \in Names : file[name] # Absent => file["json"] # Absent
    BY DEF NeverMixed
  <2>1. Backed /\ TypeOK
    BY DEF Inv, Kept
  <2>2. Sources(file) \subseteq {file["json"]}
    BY <2>1 DEF Backed, Sources, TypeOK
  <2>3. Cardinality(Sources(file)) <= 1
    BY <2>2, OneSource
  <2>4. \A name \in Names : file[name] # Absent => file["json"] # Absent
    BY <2>1 DEF Backed
  <2> QED
    BY <2>3, <2>4
<1> QED
  BY Invariance, <1>1, PTL

\* A login, however it overlaps with the others (orca_identity_load), ends with the
\* parts of one registration or not at all.
THEOREM LoadedWholeHolds == Spec => []LoadedWhole
<1>1. Inv => LoadedWhole
  <2> SUFFICES ASSUME Inv, ~clash, NEW p \in Programs, At(p, "loaded")
               PROVE  Cardinality(Sources(program[p].read)) = 1
    BY DEF LoadedWhole
  <2> DEFINE parts == program[p].read
  <2>1. /\ parts["json"] \in 1 .. MaxRegistrations
        /\ \A name \in Parts : parts[name] \in {Absent, Empty, parts["json"]}
    BY DEF Inv, Kept, ReadsOne, Reading
  <2>2. parts \in [Parts -> Contents]
    BY ProgramFields DEF Inv, TypeOK
  <2>3. "json" \in Parts
    BY FilesAre
  <2>4. parts["json"] \notin {Absent, Empty}
    BY <2>1, RegistrationsAssumption DEF Absent, Empty
  <2> HIDE DEF parts
  <2>5. Sources(parts) = {parts["json"]}
    BY <2>1, <2>2, <2>3, <2>4 DEF Sources
  <2> QED
    BY <2>5, FS_Singleton DEF parts
<1> QED
  BY Invariance, <1>1, PTL
\* Nobody writes or deletes a part of an identity that is complete.
LEMMA CompleteStays ==
  Inv /\ [Next]_vars /\ Complete /\ ~clash' => \A name \in Parts : file'[name] = file[name]
<1> SUFFICES ASSUME Inv, [Next]_vars, Complete, ~clash'
             PROVE  \A name \in Parts : file'[name] = file[name]
  OBVIOUS
<1>1. Kept /\ TypeOK
  BY ClashStays DEF Inv
<1>2. \A name \in Parts : file[name] \notin {Absent, Empty}
  BY <1>1 DEF Complete, TypeOK, Absent, Empty
<1>3. "json" \in Parts /\ \A k \in 1 .. 6 : Files[k] \in Parts \/ Files[k] = "metadata"
  BY FilesAre
<1>4. "metadata" \notin Parts /\ Parts \subseteq Names
  BY DEF Parts
<1>5. ASSUME NEW p \in Programs, Saving(p)
      PROVE  Current(p) = "metadata"
  <2>1. program[p].at \in 1 .. 6 /\ Current(p) = Files[program[p].at]
    BY <1>1, ProgramFields DEF TypeOK, Current
  <2>2. file[Current(p)] \in {Absent, Empty}
    BY <1>1, <1>5 DEF Kept, Saved
  <2> QED
    BY <1>2, <1>3, <2>1, <2>2
<1>6. ASSUME NEW p \in Programs, At(p, "deleting")
      PROVE  FALSE
  <2>1. file["json"] \in {Absent, Empty}
    BY <1>1, <1>6 DEF Kept, Found
  <2> QED
    BY <1>2, <1>3, <2>1
<1>7. ASSUME NEW p \in Programs, SaveOpen(p) \/ SaveClose(p)
      PROVE  \A name \in Parts : file'[name] = file[name]
  <2>1. Current(p) = "metadata"
    BY <1>5, <1>7 DEF SaveOpen, SaveClose
  <2>2. file' = file \/ \E c : file' = [file EXCEPT !["metadata"] = c]
    BY <1>7, <2>1 DEF SaveOpen, SaveClose
  <2> QED
    BY <1>1, <1>4, <2>2 DEF TypeOK
<1>8. file' = file \/ \E p \in Programs : SaveOpen(p) \/ SaveClose(p) \/ Delete(p)
  BY DEF Next, vars, Register, Create, Reset, ResetLoad, ResetYes, Load, LoadFile, Leave,
         Crash, BeginChange, Begin
<1> QED
  BY <1>6, <1>7, <1>8 DEF Delete

\* A complete identity stays as it is, whatever is tried and wherever it dies
\* (cmd_register, cmd_reset).
THEOREM IdentityKeptHolds == Spec => IdentityKept
<1>1. Inv /\ [Next]_vars =>
        [Complete /\ ~clash' => \A name \in Parts : file'[name] = file[name]]_vars
  BY CompleteStays
<1> QED
  BY Invariance, <1>1, PTL DEF Spec, IdentityKept
==============================================================================
