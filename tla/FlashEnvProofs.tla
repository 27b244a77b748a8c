--------------------------- MODULE FlashEnvProofs ---------------------------
(***************************************************************************)
(* Proofs about FlashEnv.tla, for all names, values and factory settings.  *)
(***************************************************************************)
EXTENDS FlashEnv, TLAPS

(* No two strings of env name the same variable. *)
Distinct(env) ==
    \A k, m \in 1..Len(env) : env[k].name = env[m].name => k = m

(* What environ and a written sector have in common: strings, the version
   first, every name once. *)
WellFormed(env) ==
    /\ env \in Seq(Entry)
    /\ env # << >> /\ env[1] = Version
    /\ Distinct(env)

(* The inductive invariant: memory and a written sector are well formed, and
   between saves the sector loads as what is in memory. *)
IInv ==
    /\ WellFormed(environ)
    /\ flash = << >> \/ WellFormed(flash)
    /\ saving \in {"no", "erase", "write"}
    /\ saving = "no" => flashenv_load(flash) = environ

(* The factory settings are well formed. *)
LEMMA FactorySettings == WellFormed(environ_init)
BY InitAssumption DEF WellFormed, Distinct

(* What flashenv_load gives is well formed whatever is in the sector. *)
LEMMA LoadIsWellFormed ==
    ASSUME NEW sector, sector = << >> \/ WellFormed(sector)
    PROVE  WellFormed(flashenv_load(sector))
BY FactorySettings DEF flashenv_load

(* A well formed sector loads as it is. *)
LEMMA LoadKeeps ==
    ASSUME NEW sector, WellFormed(sector)
    PROVE  flashenv_load(sector) = sector
BY DEF flashenv_load, WellFormed

(* The search finds the one string with the name. *)
LEMMA FindIsByName ==
    ASSUME NEW env, WellFormed(env), NEW n \in Name
    PROVE  flashenv_findenv(env, n) = {k \in 1..Len(env) : env[k].name = n}
BY DEF flashenv_findenv, IsFound, WellFormed, Distinct

(* Deleting a variable that is not the version leaves a well formed array in
   which its name does not occur, and every other string. *)
LEMMA DeleteIsWellFormed ==
    ASSUME NEW env, WellFormed(env), NEW n \in Name, n # FLASHENV_VERSION_STRING
    PROVE  LET rest == flashenv_deleteenv(env, n)
           IN  /\ WellFormed(rest)
               /\ \A k \in 1..Len(rest) : rest[k].name # n
               /\ \A e \in Entry : e.name # n =>
                    ((\E k \in 1..Len(rest) : rest[k] = e)
                        <=> (\E k \in 1..Len(env) : env[k] = e))
<1> DEFINE rest == flashenv_deleteenv(env, n)
<1>1. /\ env \in Seq(Entry) /\ Len(env) \in Nat \ {0}
      /\ \A k \in 1..Len(env) : env[k] \in Entry
      /\ env[1].name = FLASHENV_VERSION_STRING
      /\ Distinct(env)
  BY DEF WellFormed, Version
<1>2. CASE flashenv_findenv(env, n) = {}
  <2>1. \A k \in 1..Len(env) : env[k].name # n
    BY <1>2, FindIsByName
  <2>2. rest = env
    BY <1>1, <1>2 DEF flashenv_deleteenv
  <2> QED
    BY <2>1, <2>2
<1>3. CASE flashenv_findenv(env, n) # {}
  <2>1. PICK f \in 1..Len(env) : env[f].name = n /\ flashenv_findenv(env, n) = {f}
    BY <1>1, <1>3, FindIsByName DEF Distinct
  <2>2. f > 1
    BY <1>1, <2>1
  <2>3. rest = [k \in 1..(Len(env) - 1) |-> IF f <= k THEN env[k + 1] ELSE env[k]]
    BY <2>1 DEF flashenv_deleteenv
  <2>4. /\ Len(rest) = Len(env) - 1
        /\ \A k \in 1..Len(rest) : rest[k] = IF f <= k THEN env[k + 1] ELSE env[k]
        /\ rest \in Seq(Entry)
    BY <1>1, <2>1, <2>3
  <2> HIDE DEF rest
  <2>5. WellFormed(rest)
    <3>1. rest # << >> /\ rest[1] = Version
      BY <1>1, <2>1, <2>2, <2>4 DEF WellFormed
    <3>2. Distinct(rest)
      BY <1>1, <2>1, <2>4 DEF Distinct
    <3> QED
      BY <2>4, <3>1, <3>2 DEF WellFormed
  <2>6. \A k \in 1..Len(rest) : rest[k].name # n
    BY <1>1, <2>1, <2>4 DEF Distinct
  <2>7. ASSUME NEW e \in Entry, e.name # n
        PROVE  (\E k \in 1..Len(rest) : rest[k] = e)
                    <=> (\E k \in 1..Len(env) : env[k] = e)
    <3>1. ASSUME NEW k \in 1..Len(rest), rest[k] = e
          PROVE  \E j \in 1..Len(env) : env[j] = e
      <4>1. CASE f <= k
        <5>1. k + 1 \in 1..Len(env) /\ rest[k] = env[k + 1]
          BY <1>1, <2>1, <2>4, <4>1
        <5> QED
          BY <3>1, <5>1
      <4>2. CASE ~(f <= k)
        <5>1. k \in 1..Len(env) /\ rest[k] = env[k]
          BY <1>1, <2>1, <2>4, <4>2
        <5> QED
          BY <3>1, <5>1
      <4> QED
        BY <4>1, <4>2
    <3>2. ASSUME NEW k \in 1..Len(env), env[k] = e
          PROVE  \E j \in 1..Len(rest) : rest[j] = e
      <4>1. CASE k < f
        BY <1>1, <2>1, <2>4, <3>2, <4>1
      <4>2. CASE k > f
        <5>1. k - 1 \in 1..Len(rest) /\ f <= k - 1 /\ rest[k - 1] = env[(k - 1) + 1]
          BY <1>1, <2>1, <2>4, <4>2
        <5> QED
          BY <3>2, <5>1
      <4> QED
        BY <2>1, <2>7, <3>2, <4>1, <4>2
    <3> QED
      BY <3>1, <3>2
  <2> QED
    BY <2>5, <2>6, <2>7 DEF rest
<1> QED
  BY <1>2, <1>3

(* Adding a variable that is not there leaves the array well formed and every
   other string where it was. *)
LEMMA AddIsWellFormed ==
    ASSUME NEW env, WellFormed(env), NEW n \in Name, NEW v \in Value,
           \A k \in 1..Len(env) : env[k].name # n
    PROVE  /\ WellFormed(flashenv_addenv(env, n, v))
           /\ \A e \in Entry : e.name # n =>
                ((\E k \in 1..Len(flashenv_addenv(env, n, v)) :
                        flashenv_addenv(env, n, v)[k] = e)
                    <=> (\E k \in 1..Len(env) : env[k] = e))
<1> DEFINE new == [name |-> n, value |-> v]
           more == Append(env, new)
<1>1. /\ env \in Seq(Entry) /\ Len(env) \in Nat \ {0} /\ new \in Entry
      /\ env[1] = Version /\ Distinct(env)
  BY DEF WellFormed, Entry
<1>2. /\ more \in Seq(Entry) /\ Len(more) = Len(env) + 1
      /\ \A k \in 1..Len(env) : more[k] = env[k]
      /\ more[Len(env) + 1] = new
  BY <1>1
<1> HIDE DEF more
<1>3. new.name = n
  OBVIOUS
<1> HIDE DEF new
<1>4. Distinct(more)
  BY <1>1, <1>2, <1>3 DEF Distinct
<1>5. WellFormed(more)
  BY <1>1, <1>2, <1>4 DEF WellFormed
<1>6. \A e \in Entry : e.name # n =>
        ((\E k \in 1..Len(more) : more[k] = e) <=> (\E k \in 1..Len(env) : env[k] = e))
  BY <1>1, <1>2, <1>3
<1>7. flashenv_addenv(env, n, v) \in {env, more}
  BY DEF flashenv_addenv, more, new
<1> QED
  BY <1>5, <1>6, <1>7

-----------------------------------------------------------------------------
(* The invariant *)

(* A change of settings leaves memory well formed; the save that it starts is
   not finished. *)
LEMMA SetenvPreserves ==
    ASSUME IInv, NEW n \in Name, NEW v \in Value \cup {NULL}, flashenv_setenv(n, v)
    PROVE  IInv'
<1> DEFINE rest == flashenv_deleteenv(environ, n)
<1>1. /\ n # FLASHENV_VERSION_STRING /\ WellFormed(environ)
      /\ environ' = IF v = NULL THEN rest ELSE flashenv_addenv(rest, n, v)
      /\ flash' = flash /\ saving' = "erase"
  BY DEF IInv, flashenv_setenv
<1>2. WellFormed(rest) /\ \A k \in 1..Len(rest) : rest[k].name # n
  BY <1>1, DeleteIsWellFormed
<1> HIDE DEF rest
<1>3. WellFormed(environ')
  <2>1. CASE v = NULL
    BY <1>1, <1>2, <2>1
  <2>2. CASE v # NULL
    <3>1. v \in Value
      BY <2>2
    <3>2. WellFormed(flashenv_addenv(rest, n, v))
      BY <1>2, <3>1, AddIsWellFormed
    <3> QED
      BY <1>1, <2>2, <3>2
  <2> QED
    BY <2>1, <2>2
<1> QED
  BY <1>1, <1>3 DEF IInv, WellFormed, Distinct

(* What flashenv_load makes of an empty sector or of the factory settings. *)
LEMMA InvariantInitially == Init => IInv
<1> SUFFICES ASSUME Init PROVE IInv
  OBVIOUS
<1>1. flash = << >> \/ WellFormed(flash)
  BY FactorySettings DEF Init
<1>2. environ = flashenv_load(flash) /\ saving = "no"
  BY DEF Init
<1>3. WellFormed(environ)
  BY <1>1, <1>2, LoadIsWellFormed
<1> QED
  BY <1>1, <1>2, <1>3 DEF IInv

(* Changing settings, saving and restarting, one by one. *)
LEMMA InvariantStep == IInv /\ [Next]_vars => IInv'
<1> SUFFICES ASSUME IInv, [Next]_vars PROVE IInv'
  OBVIOUS
<1>1. ASSUME NEW n \in Name, NEW v \in Value \cup {NULL}, flashenv_setenv(n, v)
      PROVE  IInv'
  BY <1>1, SetenvPreserves
<1>2. CASE spi_flash_erase_sector
  BY <1>2 DEF IInv, spi_flash_erase_sector, WellFormed, Distinct
<1>3. CASE spi_flash_write
  <2>1. /\ flash' = environ /\ environ' = environ /\ saving' = "no"
        /\ WellFormed(environ)
    BY <1>3 DEF IInv, spi_flash_write
  <2>2. flashenv_load(environ) = environ
    BY <2>1, LoadKeeps
  <2> QED
    BY <2>1, <2>2 DEF IInv, WellFormed, Distinct, flashenv_load
<1>4. CASE Restart
  <2>1. /\ environ' = flashenv_load(flash) /\ flash' = flash /\ saving' = "no"
        /\ flash = << >> \/ WellFormed(flash)
    BY <1>4 DEF IInv, Restart
  <2>2. WellFormed(flashenv_load(flash))
    BY <2>1, LoadIsWellFormed
  <2> QED
    BY <2>1, <2>2 DEF IInv, WellFormed, Distinct, flashenv_load
<1>5. CASE UNCHANGED vars
  BY <1>5 DEF IInv, vars, WellFormed, Distinct, flashenv_load
<1> QED
  BY <1>1, <1>2, <1>3, <1>4, <1>5 DEF Next

(* It holds in every reachable state. *)
LEMMA AlwaysIInv == Spec => []IInv
BY InvariantInitially, InvariantStep, PTL DEF Spec

(* What SettingsInvariant is about is part of it. *)
LEMMA IInvImplies == IInv => TypeOK /\ OneValuePerName
<1> SUFFICES ASSUME IInv PROVE TypeOK /\ OneValuePerName
  OBVIOUS
<1>1. << >> \in Seq(Entry)
  OBVIOUS
<1>2. environ \in Seq(Entry) /\ flash \in Seq(Entry)
  BY <1>1 DEF IInv, WellFormed
<1>3. OneValuePerName
  BY DEF IInv, WellFormed, Distinct, OneValuePerName
<1> QED
  BY <1>2, <1>3 DEF IInv, TypeOK

(* For any names, values, lengths and factory settings, and up to the first string
   that runs over the end of the array: memory and sector hold strings that name
   variables, and no two strings in memory name the same one (flashenv_setenv). *)
THEOREM SettingsInvariant == Spec => [](TypeOK /\ OneValuePerName)
BY AlwaysIInv, IInvImplies, PTL

(* As long as the strings fit in the array, so that flashenv_save writes them all,
   a restart that does not hit a save finds every setting as it was left: the
   array always begins with the version that flashenv_load asks for. *)
THEOREM RestartIsSafe == Spec => RestartKeepsSettings
<1>1. IInv /\ [Next]_vars => [Restart /\ saving = "no" => environ' = environ]_vars
  BY DEF IInv, Restart
<1> QED
  BY <1>1, AlwaysIInv, PTL DEF Spec, RestartKeepsSettings

-----------------------------------------------------------------------------
(* Other variables *)

Holds(env, e) == \E k \in 1..Len(env) : env[k] = e

(* flashenv_getenv gives the value of the one string with the name. *)
LEMMA GetenvIsLookup ==
    ASSUME NEW env, WellFormed(env), NEW m \in Name
    PROVE  /\ \A v \in Value : Holds(env, [name |-> m, value |-> v])
                                => flashenv_getenv(env, m) = v
           /\ (\A v \in Value : ~Holds(env, [name |-> m, value |-> v]))
                => flashenv_getenv(env, m) = NULL
<1>1. /\ \A k \in 1..Len(env) : env[k] \in Entry
      /\ Distinct(env)
  BY DEF WellFormed
<1>2. flashenv_findenv(env, m) = {k \in 1..Len(env) : env[k].name = m}
  BY FindIsByName
<1>3. ASSUME NEW v \in Value, Holds(env, [name |-> m, value |-> v])
      PROVE  flashenv_getenv(env, m) = v
  <2>1. PICK k \in 1..Len(env) : env[k] = [name |-> m, value |-> v]
    BY <1>3 DEF Holds
  <2>2. flashenv_findenv(env, m) = {k}
    BY <1>1, <1>2, <2>1 DEF Distinct
  <2>3. (CHOOSE j \in flashenv_findenv(env, m) : TRUE) = k
    BY <2>2
  <2> QED
    BY <2>1, <2>2, <2>3 DEF flashenv_getenv
<1>4. ASSUME \A v \in Value : ~Holds(env, [name |-> m, value |-> v])
      PROVE  flashenv_getenv(env, m) = NULL
  <2>1. ASSUME NEW k \in 1..Len(env), env[k].name = m PROVE FALSE
    <3>1. env[k] = [name |-> m, value |-> env[k].value] /\ env[k].value \in Value
      BY <1>1, <2>1 DEF Entry
    <3> QED
      BY <1>4, <3>1 DEF Holds
  <2> QED
    BY <1>2, <2>1 DEF flashenv_getenv
<1> QED
  BY <1>3, <1>4

(* As long as the strings fit in the array, setting or deleting one variable
   leaves the value of every other alone. *)
THEOREM OthersKeepTheirValues == Spec => OthersAreKept
<1>1. ASSUME IInv, NEW n \in Name, NEW v \in Value \cup {NULL}, flashenv_setenv(n, v),
             NEW m \in Name \ {n}
      PROVE  flashenv_getenv(environ', m) = flashenv_getenv(environ, m)
  <2> DEFINE rest == flashenv_deleteenv(environ, n)
  <2>1. /\ n # FLASHENV_VERSION_STRING /\ WellFormed(environ)
        /\ environ' = IF v = NULL THEN rest ELSE flashenv_addenv(rest, n, v)
    BY <1>1 DEF IInv, flashenv_setenv
  <2>2. /\ WellFormed(rest) /\ \A k \in 1..Len(rest) : rest[k].name # n
        /\ \A e \in Entry : e.name # n => (Holds(rest, e) <=> Holds(environ, e))
    BY <2>1, DeleteIsWellFormed DEF Holds
  <2> HIDE DEF rest
  <2>3. /\ WellFormed(environ')
        /\ \A e \in Entry : e.name # n => (Holds(environ', e) <=> Holds(rest, e))
    <3>1. CASE v = NULL
      BY <2>1, <2>2, <3>1
    <3>2. CASE v # NULL
      <4>1. v \in Value
        BY <3>2
      <4>2. /\ WellFormed(flashenv_addenv(rest, n, v))
            /\ \A e \in Entry : e.name # n =>
                    (Holds(flashenv_addenv(rest, n, v), e) <=> Holds(rest, e))
        BY <2>2, <4>1, AddIsWellFormed DEF Holds
      <4> QED
        BY <2>1, <3>2, <4>2
    <3> QED
      BY <3>1, <3>2
  <2>4. \A w \in Value : Holds(environ', [name |-> m, value |-> w])
                            <=> Holds(environ, [name |-> m, value |-> w])
    <3> TAKE w \in Value
    <3>1. [name |-> m, value |-> w] \in Entry /\ [name |-> m, value |-> w].name # n
      BY DEF Entry
    <3> QED
      BY <2>2, <2>3, <3>1
  <2>5. CASE \E w \in Value : Holds(environ, [name |-> m, value |-> w])
    BY <2>1, <2>3, <2>4, <2>5, GetenvIsLookup
  <2>6. CASE \A w \in Value : ~Holds(environ, [name |-> m, value |-> w])
    BY <2>1, <2>3, <2>4, <2>6, GetenvIsLookup
  <2> QED
    BY <2>5, <2>6
<1>2. IInv /\ [Next]_vars =>
        [\A n \in Name, v \in Value \cup {NULL} : flashenv_setenv(n, v) =>
            \A m \in Name \ {n} :
                flashenv_getenv(environ', m) = flashenv_getenv(environ, m)]_vars
  BY <1>1
<1> QED
  BY <1>2, AlwaysIInv, PTL DEF Spec, OthersAreKept
=============================================================================
