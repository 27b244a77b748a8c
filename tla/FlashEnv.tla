------------------------------ MODULE FlashEnv ------------------------------
(***************************************************************************)
(* user/flashenv.c: the environment variables, a copy of them in a flash   *)
(* sector, and what a restart at any moment leaves of them.                *)
(*                                                                         *)
(* The array __environ is the sequence of its NAME=value strings; what a   *)
(* string takes up is a sum of lengths.  The flash is external: a sector   *)
(* is erased, and then written, and the power may fail in between.         *)
(***************************************************************************)
EXTENDS Integers, SequencesExt

CONSTANTS
    Name,           \* names of variables
    Value,          \* values of variables
    FLASHENV_VERSION_STRING, FLASHENV_VERSION,
    NameLength,     \* strlen of each name
    ValueLength,    \* strlen of each value
    environ_init,   \* the factory settings
    ENVSIZE,        \* bytes of __environ
    NULL            \* no value

Entry == [name : Name, value : Value]

Version == [name |-> FLASHENV_VERSION_STRING, value |-> FLASHENV_VERSION]

ASSUME NameAssumption ==
    /\ FLASHENV_VERSION_STRING \in Name /\ FLASHENV_VERSION \in Value
    /\ NULL \notin Value
ASSUME LengthAssumption ==
    NameLength \in [Name -> Nat] /\ ValueLength \in [Value -> Nat] /\ ENVSIZE \in Nat
ASSUME InitAssumption ==
    /\ environ_init \in Seq(Entry) /\ environ_init # << >>
    /\ environ_init[1] = Version
    /\ \A k, m \in 1..Len(environ_init) :
            environ_init[k].name = environ_init[m].name => k = m

VARIABLES
    environ,        \* the array in memory
    flash,          \* the sector: the array last written, or empty when erased
    saving          \* how far flashenv_save has got: "no", "erase" or "write"

vars == <<environ, flash, saving>>

-----------------------------------------------------------------------------

(* NAME=value and its terminator. *)
EntrySize(n, v) == NameLength[n] + ValueLength[v] + 2

(* Where the terminator of the whole array stands. *)
Used(env) == FoldLeft(LAMBDA sum, e : sum + EntrySize(e.name, e.value), 0, env)

Fits(env) == Used(env) + 1 <= ENVSIZE

(* The first string that matches. *)
IsFound(env, n, k) ==
    /\ env[k].name = n
    /\ \A m \in 1..(k - 1) : env[m].name # n
flashenv_findenv(env, n) == {k \in 1..Len(env) : IsFound(env, n, k)}

(* Mutant of flashenv_deleteenv: the last string goes, whichever was found. *)
flashenv_deleteenv_last(env, n) ==
    IF flashenv_findenv(env, n) = {} THEN env ELSE SubSeq(env, 1, Len(env) - 1)
(* Mutant of flashenv_deleteenv: nothing goes. *)
flashenv_deleteenv_none(env, n) == env

(* The strings behind the one that is found are moved down over it. *)
flashenv_deleteenv(env, n) ==
    [k \in 1..(Len(env) - IF flashenv_findenv(env, n) = {} THEN 0 ELSE 1) |->
        IF \E m \in flashenv_findenv(env, n) : m <= k THEN env[k + 1] ELSE env[k]]

(* The bytes in use pass for the bytes that are left. *)
HasRoom(env, n, v) == EntrySize(n, v) <= Used(env)

(* A string that finds no room is not added. *)
flashenv_addenv(env, n, v) ==
    IF HasRoom(env, n, v) THEN Append(env, [name |-> n, value |-> v]) ELSE env

flashenv_getenv(env, n) ==
    IF flashenv_findenv(env, n) = {} THEN NULL
    ELSE env[CHOOSE k \in flashenv_findenv(env, n) : TRUE].value

(* A sector that does not begin with the version is replaced by the factory
   settings. *)
flashenv_load(sector) ==
    IF sector # << >> /\ sector[1] = Version THEN sector ELSE environ_init

-----------------------------------------------------------------------------

(* A sector never written, or one that a first save has filled. *)
Init ==
    /\ flash \in {<< >>, environ_init}
    /\ environ = flashenv_load(flash)
    /\ saving = "no"

(* Mutant of flashenv_setenv: VERSION is a variable like any other. *)
flashenv_setenv_any(n, v) ==
    /\ saving = "no"
    /\ LET rest == flashenv_deleteenv(environ, n)
       IN  environ' = IF v = NULL THEN rest ELSE flashenv_addenv(rest, n, v)
    /\ saving' = "erase"
    /\ UNCHANGED flash

(* Mutant of flashenv_setenv: no value is as good as one. *)
flashenv_setenv_null(n, v) ==
    /\ saving = "no"
    /\ n # FLASHENV_VERSION_STRING
    /\ LET rest == flashenv_deleteenv(environ, n)
       IN  environ' = IF v = NULL THEN Append(rest, [name |-> n, value |-> NULL])
                      ELSE flashenv_addenv(rest, n, v)
    /\ saving' = "erase"
    /\ UNCHANGED flash

(* setenv: the variable is deleted, added with its new value if it has one,
   and all is saved. *)
flashenv_setenv(n, v) ==
    /\ saving = "no"
    /\ n # FLASHENV_VERSION_STRING
    /\ LET rest == flashenv_deleteenv(environ, n)
       IN  environ' = IF v = NULL THEN rest ELSE flashenv_addenv(rest, n, v)
    /\ saving' = "erase"
    /\ UNCHANGED flash

(* flashenv_save.  sizeof(__environ) bytes are written: every string, since the
   strings fit (Next). *)
spi_flash_erase_sector ==
    /\ saving = "erase"
    /\ flash' = << >>
    /\ saving' = "write"
    /\ UNCHANGED environ

spi_flash_write ==
    /\ saving = "write"
    /\ flash' = environ
    /\ saving' = "no"
    /\ UNCHANGED environ

(* command_reboot, or the power fails: user_init loads what is there. *)
Restart ==
    /\ environ' = flashenv_load(flash)
    /\ saving' = "no"
    /\ UNCHANGED flash

(* A string that has run over the end of the array has overwritten what lies
   behind it, and there is no telling what happens next: the model stops. *)
Next ==
    /\ Fits(environ)
    /\ \/ \E n \in Name, v \in Value \cup {NULL} : flashenv_setenv(n, v)
       \/ spi_flash_erase_sector
       \/ spi_flash_write
       \/ Restart

Spec == Init /\ [][Next]_vars

-----------------------------------------------------------------------------
(* Properties *)

(* Memory and sector hold strings that name variables. *)
TypeOK ==
    /\ environ \in Seq(Entry)
    /\ flash \in Seq(Entry)
    /\ saving \in {"no", "erase", "write"}

(* A variable has one value: of two strings with its name the first would hide
   the second, in memory and, after a restart, from the sector
   (flashenv_setenv deletes before it adds). *)
OneValuePerName ==
    \A k, m \in 1..Len(environ) : environ[k].name = environ[m].name => k = m

(* Whatever has been set and deleted, the array begins with the version by
   which flashenv_load recognises it: a restart that does not hit a save finds
   every setting as it was left, not the factory settings. *)
RestartKeepsSettings ==
    [][Restart /\ saving = "no" => environ' = environ]_vars

(* Setting or deleting one variable, with all the moving of strings that it
   takes, leaves the value of every other variable alone. *)
OthersAreKept ==
    [][\A n \in Name, v \in Value \cup {NULL} : flashenv_setenv(n, v) =>
        \A m \in Name \ {n} : flashenv_getenv(environ', m) = flashenv_getenv(environ, m)]_vars

(* "no space left" (flashenv.c:180): what does not fit is not added, so the
   strings and the terminator stay within the array. *)
EnvironFits == Fits(environ)
=============================================================================
