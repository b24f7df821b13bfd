----------------------------- MODULE MCConsole -----------------------------
(* Small instances of Console for TLC. *)
EXTENDS Console

CONSTANTS w1, w2

OneBrowser  == {w1}
TwoBrowsers == {w1, w2}

Symmetry == Permutations(TwoBrowsers)

Mask == "masked"

\* Passwords that are written as variables of the environment: of one the value
\* is a variable again, of another one that is not set.
Passwords == [p \in {"$VAR", "$REF", "$GONE", "$NONE", "secret", "other", ""} |->
                 CASE p = "$VAR" -> "secret" [] p = "$REF" -> "$VAR"
                   [] p = "$GONE" -> "$NONE" [] p = "$NONE" -> "" [] OTHER -> p]

MakeBackend(id, name, key) == [id |-> id, name |-> name, key |-> key]
WithExtra(b, extra) == [id |-> b.id, name |-> b.name, key |-> b.key, extra |-> extra]

Start == [backends |-> <<WithExtra(MakeBackend("A", "a", "keyA"), TRUE),
                         WithExtra(MakeBackend("B", "b", "keyB"), FALSE)>>,
          raw |-> "$VAR", log |-> "log1"]

New == MakeBackend("C", "c", "keyC")

\* Nothing; a backend renamed, also to a name that is taken; the first one
\* removed; the order reversed; one added in front; and the first removed and
\* the next renamed at once.
FormEdits(form) ==
    {form, Reverse(form), Tail(form)}
    \cup {[form EXCEPT ![1].name = n] : n \in {"b", "c"}}
    \cup (IF Len(form) = 2 THEN {<<New>> \o form, [Tail(form) EXCEPT ![1].name = "d"]} ELSE {})

\* A key added or a name doubled.
FileEdits(doc) ==
    {[doc EXCEPT !.backends = [i \in DOMAIN @ |-> WithExtra(@[i], TRUE)]],
     [doc EXCEPT !.backends = @ \o @]}
=============================================================================
