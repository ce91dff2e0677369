---------------------------- MODULE Generations ----------------------------
(***************************************************************************)
(* The durable counters that name response-cache namespaces                *)
(* (internal/cache/generations.go, table cache_generations).               *)
(*                                                                         *)
(* A row is identified by a scope and a class.  The empty string of the    *)
(* source, which stands for "every scope" or "every class", is Blank here. *)
(* The namespace of a (scope, class) pair is named by two numbers: the     *)
(* saturated sum of the three counters that concern the pair, and the      *)
(* server-wide counter.  Bumping a counter renames, and so retires, every  *)
(* namespace the counter concerns.                                         *)
(***************************************************************************)
EXTENDS Integers

CONSTANTS
    Scope,      \* caller scopes ("user:<uuid>", "tok:<fingerprint>")
    Class,      \* response classes ("sections", "metadata", "collections")
    Blank,      \* the empty scope or class of a counter row
    MaxGen,     \* largest value of one counter (2^63 - 1 in Postgres)
    MaxUint64   \* largest value of the summed generation (2^64 - 1 in Go)

ASSUME BlankAssumption == Blank \notin Scope /\ Blank \notin Class
ASSUME WidthAssumption == /\ MaxGen \in Nat \ {0}
                          /\ MaxUint64 \in Nat
                          /\ MaxGen <= MaxUint64

VARIABLE gen    \* one counter per row; a row that is absent reads as zero

Row == (Scope \cup {Blank}) \X (Class \cup {Blank})

GenTypeOK == gen \in [Row -> 0..MaxGen]

\* Migration 0007 inserts the server row with generation 1.
GenInit == gen = [row \in Row |-> IF row = <<Blank, Blank>> THEN 1 ELSE 0]

\* Mutant: addition that wraps at the width of the machine word.
WrappingAdd(x, y, z) == (x + y + z) % (MaxUint64 + 1)

SaturatedAdd(x, y, z) ==
    IF x + y + z > MaxUint64 THEN MaxUint64 ELSE x + y + z

\* Mutant: the class counter of the whole server is left out of the sum.
EffectiveWithoutServerClass(s, c) ==
    SaturatedAdd(gen[<<s, Blank>>], gen[<<s, c>>], 0)

\* The two numbers Get returns, from one statement snapshot.
Effective(s, c) ==
    SaturatedAdd(gen[<<s, Blank>>], gen[<<s, c>>], gen[<<Blank, c>>])

Global == gen[<<Blank, Blank>>]

\* Does the counter of row <<rs, rc>> concern the namespace of <<s, c>>?
Covers(rs, rc, s, c) == rs \in {Blank, s} /\ rc \in {Blank, c}

\* The upsert.  At MaxGen the increment overflows bigint and the statement
\* fails, so there is no successful bump of a full counter.
Bump(rs, rc) ==
    /\ gen[<<rs, rc>>] < MaxGen
    /\ gen' = [gen EXCEPT ![<<rs, rc>>] = @ + 1]

BumpClass(s, c)    == Bump(s, c)
BumpScope(s)       == Bump(s, Blank)
BumpServerClass(c) == Bump(Blank, c)
BumpAll            == Bump(Blank, Blank)

GenNext ==
    \/ \E s \in Scope, c \in Class : BumpClass(s, c)
    \/ \E s \in Scope : BumpScope(s)
    \/ \E c \in Class : BumpServerClass(c)
    \/ BumpAll

GenSpec == GenInit /\ [][GenNext]_gen

-----------------------------------------------------------------------------
NoRewind ==
    \A s \in Scope, c \in Class :
        Effective(s, c)' >= Effective(s, c) /\ Global' >= Global

\* No bump ever moves a namespace back to an earlier name, whatever the
\* counters have reached: Get's sum saturates instead of wrapping, so a
\* namespace of an earlier generation is not revived at the machine limit
\* (generations.go, saturatedAdd and "Every counter only increases").
NeverRewinds == [][NoRewind]_gen

=============================================================================
