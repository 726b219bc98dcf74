---------------------------- MODULE IdentityStore ----------------------------
(***************************************************************************)
(* The identity of a device: the files orca_identity.c keeps it in, and    *)
(* the runs of the program that register, log in and reset.                *)
(*                                                                         *)
(* A registration is a number, the position of its passcodes in made.  A   *)
(* file is absent, empty - between fopen and fclose, or after a crash      *)
(* there - or holds its part of one registration.  Every registration made *)
(* here is a SECURE one: no command makes another.                         *)
(***************************************************************************)
EXTENDS Integers, Sequences, FiniteSets

CONSTANTS
  Programs,         \* runs of the program that may go on at the same time
  Passcodes,        \* what users type: see PasscodesAssumption
  MaxRegistrations, \* bounds the identities created
  MaxRuns,          \* bounds the commands given
  MaxCrashes        \* bounds the programs that die

\* By the rules for passcodes: twelve characters of four kinds, eight of any kind,
\* and less.
ASSUME PasscodesAssumption == Passcodes \subseteq {"strong", "long", "short"}

ASSUME RegistrationsAssumption == MaxRegistrations \in Nat

Absent == -1
Empty == 0

\* A slip: identity.json comes after the keys.
FilesKeysFirst == <<"public_key", "private_key", "json", "signature", "salt", "metadata">>

\* In the order in which they are saved, loaded and deleted.
Files == <<"json", "public_key", "private_key", "signature", "salt", "metadata">>
Names == {Files[k] : k \in DOMAIN Files}
Parts == Names \ {"metadata"}
Contents == {Absent, Empty} \cup 1 .. MaxRegistrations

VARIABLES
  file,     \* the files
  home,     \* whether their directory exists
  made,     \* the passcode of each registration
  program,  \* what each program is doing
  clash,    \* history: a program began to change files while another was at it
  runs, crashes

vars == <<file, home, made, program, clash, runs, crashes>>

Steps == {"none", "typing", "save", "save_all", "confirming", "confirmed", "deleting",
          "loading", "loaded"}

\* at is the file it is at, open whether it has that file open and whether the file
\* was deleted since, mine the registration it saves, and read what
\* orca_identity_load has read.
Program == [step : Steps, at : DOMAIN Files, open : {"no", "yes", "lost"},
            mine : Contents, read : [Parts -> Contents]]
Idle == [step |-> "none", at |-> 1, open |-> "no", mine |-> Absent,
         read |-> [name \in Parts |-> Absent]]

Init ==
  /\ file = [name \in Names |-> Absent]
  /\ home = FALSE
  /\ made = << >>
  /\ program = [p \in Programs |-> Idle]
  /\ clash = FALSE
  /\ runs = 0 /\ crashes = 0

At(p, step) == program[p].step = step
Changing(p) == program[p].step \notin {"none", "loading", "loaded"}
Current(p) == Files[program[p].at]

GoTo(p, step) == program' = [program EXCEPT ![p].step = step]
NextFile(p) == program' = [program EXCEPT ![p].at = @ + 1, ![p].open = "no"]
End(p) == program' = [program EXCEPT ![p] = Idle]

\* orca_identity_storage_init at the start of every run makes the directory.
Begin(p, step) ==
  /\ At(p, "none") /\ runs < MaxRuns
  /\ GoTo(p, step)
  /\ home' = TRUE
  /\ runs' = runs + 1
  /\ UNCHANGED <<file, made, crashes>>

BeginChange(p, step) ==
  /\ Begin(p, step)
  /\ clash' = (clash \/ \E q \in Programs : Changing(q))

----------------------------------------------------------------------------
(* Registration.                                                           *)

\* One registration only: with an identity there the command ends here.
Register(p) == file["json"] = Absent /\ BeginChange(p, "typing")

\* The passcode is typed twice into one buffer: the policy is checked on the first,
\* and what is compared with the second is the second itself, which is used.
\* orcashi_register_identity is given one, and checks nothing.
Accepted(first, second, command) ==
  /\ command => first = "strong"
  /\ ~command => first = second

\* orca_identity_create_secure_3digit wants eight characters.
Create(p) ==
  /\ At(p, "typing")
  /\ \E first, second \in Passcodes, command \in BOOLEAN :
       \/ /\ Accepted(first, second, command)
          /\ second # "short" /\ Len(made) < MaxRegistrations
          /\ made' = Append(made, second)
          /\ program' = [program EXCEPT
               ![p].step = IF command THEN "save_all" ELSE "save",
               ![p].mine = Len(made')]
       \/ /\ ~Accepted(first, second, command) \/ second = "short"
          /\ End(p) /\ UNCHANGED made
  /\ UNCHANGED <<file, home, clash, runs, crashes>>

Saving(p) == At(p, "save") \/ At(p, "save_all")

\* fopen: the file is there and empty.  Without the directory it fails, and so does
\* the registration.
SaveOpen(p) ==
  /\ Saving(p) /\ program[p].open = "no"
  /\ \/ /\ home
        /\ file' = [file EXCEPT ![Current(p)] = Empty]
        /\ program' = [program EXCEPT ![p].open = "yes"]
     \/ ~home /\ End(p) /\ UNCHANGED file
  /\ UNCHANGED <<home, made, clash, runs, crashes>>

\* The files orca_identity_save writes are five, and cmd_register adds the metadata.
LastSaved(p) == program[p].at = IF At(p, "save_all") THEN 6 ELSE 5

\* fclose: the contents, in one write.  A file deleted meanwhile stays deleted.
SaveClose(p) ==
  /\ Saving(p) /\ program[p].open # "no"
  /\ file' = IF program[p].open = "yes"
             THEN [file EXCEPT ![Current(p)] = program[p].mine] ELSE file
  /\ IF LastSaved(p) THEN End(p) ELSE NextFile(p)
  /\ UNCHANGED <<home, made, clash, runs, crashes>>

----------------------------------------------------------------------------
(* Reset.                                                                  *)

Reset(p) == file["json"] # Absent /\ BeginChange(p, "confirming")

\* A slip: the mode is not looked at, so that no passcode is asked for.
LoadsWithoutPasscodeAny == file["json"] # Absent

\* What orca_identity_load says when it is given no passcode: an empty file has mode
\* 0, NORMAL, and an empty id, and a whole one is SECURE and wants a passcode.
LoadsWithoutPasscode == file["json"] = Empty

\* The identity is loaded, and the id the user has typed compared with it; then two
\* times yes.  The user may turn back at each question.
ResetLoad(p) ==
  /\ At(p, "confirming")
  /\ \/ LoadsWithoutPasscode /\ GoTo(p, "confirmed")
     \/ End(p)
  /\ UNCHANGED <<file, home, made, clash, runs, crashes>>

ResetYes(p) ==
  /\ At(p, "confirmed")
  /\ GoTo(p, "deleting") \/ End(p)
  /\ UNCHANGED <<file, home, made, clash, runs, crashes>>

\* unlink, of one file after the other, and then rmdir, which wants an empty
\* directory.
Deleted(p) == [q \in Programs |->
  IF program[q].open = "yes" /\ Current(q) = Current(p)
  THEN [program[q] EXCEPT !.open = "lost"] ELSE program[q]]

Delete(p) ==
  /\ At(p, "deleting")
  /\ file' = [file EXCEPT ![Current(p)] = Absent]
  /\ \/ /\ program[p].at < Len(Files)
        /\ program' = [Deleted(p) EXCEPT ![p].at = @ + 1]
        /\ UNCHANGED home
     \/ /\ program[p].at = Len(Files)
        /\ program' = [Deleted(p) EXCEPT ![p] = Idle]
        /\ home' = (home /\ \E name \in Names : file'[name] # Absent)
  /\ UNCHANGED <<made, clash, runs, crashes>>

----------------------------------------------------------------------------
(* orca_identity_load with a passcode, as orcashi_load_identity calls it.   *)

Load(p) == Begin(p, "loading") /\ UNCHANGED clash

\* orca_identity_verify_with_passcode: the salt and the passcode give the key of the
\* private key's encryption, and what it signs the public key verifies.  The signature
\* over the id is not looked at.
Verifies(parts, passcode) ==
  /\ parts["salt"] \in DOMAIN made
  /\ parts["private_key"] = parts["salt"]
  /\ parts["public_key"] = parts["salt"]
  /\ made[parts["salt"]] = passcode

\* One file after the other: identity.json holds a copy of each part, and
\* orca_identity_from_json reads none of them.  An absent identity.json ends it, and an
\* empty one too, with an identity that has no id and asks for no passcode.
LoadFile(p) ==
  /\ At(p, "loading")
  /\ LET parts == [program[p].read EXCEPT ![Current(p)] = file[Current(p)]]
     IN  \/ Current(p) = "json" /\ parts["json"] \in {Absent, Empty} /\ End(p)
         \/ /\ Current(p) = "json" => parts["json"] \notin {Absent, Empty}
            /\ Current(p) # "salt"
            /\ program' = [program EXCEPT ![p].at = @ + 1, ![p].read = parts]
         \/ /\ Current(p) = "salt"
            /\ \E passcode \in Passcodes :
                 \/ /\ Verifies(parts, passcode)
                    /\ program' = [program EXCEPT ![p].step = "loaded", ![p].read = parts]
                 \/ ~Verifies(parts, passcode) /\ End(p)
  /\ UNCHANGED <<file, home, made, clash, runs, crashes>>

\* The program with the loaded identity ends.
Leave(p) ==
  /\ At(p, "loaded")
  /\ End(p)
  /\ UNCHANGED <<file, home, made, clash, runs, crashes>>

----------------------------------------------------------------------------
(* A program dies between two steps.                                       *)

Crash(p) ==
  /\ ~At(p, "none") /\ crashes < MaxCrashes
  /\ End(p)
  /\ crashes' = crashes + 1
  /\ UNCHANGED <<file, home, made, clash, runs>>

Next ==
  \E p \in Programs :
    \/ Register(p) \/ Create(p) \/ SaveOpen(p) \/ SaveClose(p)
    \/ Reset(p) \/ ResetLoad(p) \/ ResetYes(p) \/ Delete(p)
    \/ Load(p) \/ LoadFile(p) \/ Leave(p)
    \/ Crash(p)

Spec == Init /\ [][Next]_vars

----------------------------------------------------------------------------
(* Properties.  Two programs that register at once both find no identity:  *)
(* NeverMixed, LoadedWhole and IdentityKept are for registrations and      *)
(* resets that do not overlap.  Logins may overlap with anything.          *)

\* Every variable has its type; no program leaves the list of files.
TypeOK ==
  /\ file \in [Names -> Contents]
  /\ home \in BOOLEAN
  /\ made \in Seq(Passcodes) /\ Len(made) <= MaxRegistrations
  /\ program \in [Programs -> Program]
  /\ clash \in BOOLEAN

\* The registrations of which there is something among the given parts.
Sources(parts) == {parts[name] : name \in DOMAIN parts} \ {Absent, Empty}

\* Wherever a registration or a reset dies (orca_identity_save, orca_identity_reset),
\* what it leaves is not taken for parts of the next identity: the files are those of
\* one registration, and identity.json, which keeps the next one from beginning, is
\* there whenever another file is.
NeverMixed ==
  ~clash =>
    /\ Cardinality(Sources(file)) <= 1
    /\ \A name \in Names : file[name] # Absent => file["json"] # Absent

\* A login (orca_identity_load), which reads file after file while others write and
\* delete them, never ends with parts of two registrations, also among the parts that
\* nothing in it compares, the id and its signature.
LoadedWhole ==
  ~clash => \A p \in Programs :
    At(p, "loaded") => Cardinality(Sources(program[p].read)) = 1

\* An identity that is complete stays as it is, whatever is tried afterwards: one
\* registration only, and a permanent id (cmd_register, cmd_reset).
Complete == \E k \in DOMAIN made : \A name \in Parts : file[name] = k

IdentityKept ==
  [][Complete /\ ~clash' => \A name \in Parts : file'[name] = file[name]]_vars
==============================================================================
