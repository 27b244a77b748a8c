----------------------------- MODULE MCFlashEnv -----------------------------
(* Three variables besides VERSION, factory settings of two strings, and    *)
(* values of two lengths, the longer of which addenv refuses while few        *)
(* strings are there.                                                         *)
EXTENDS FlashEnv

MCNameLength == [n \in Name |-> 1]
MCValueLength == [v \in Value |-> IF v = "long" THEN 4 ELSE 1]
MCInit == <<[name |-> "VERSION", value |-> "2"], [name |-> "HOSTNAME", value |-> "short"]>>
=============================================================================
