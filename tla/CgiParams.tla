------------------------------- MODULE CgiParams -------------------------------
(***************************************************************************)
(* The parameters of a query or of a form: cgi2params.cpp parses them with *)
(* a cursor, params2cgi.cpp writes them.  A string is a sequence of        *)
(* tokens: "=", "&", the encoded brackets "[" for %5B and "]" for %5D, and *)
(* characters, on which nothing depends.  A parameter is a stack of keys   *)
(* and a value; the tree that cgi2params builds of them belongs to another *)
(* library.                                                                *)
(***************************************************************************)
EXTENDS Integers, SequencesExt

CONSTANTS
    Characters,     \* tokens that are neither "=" nor "&" nor a bracket
    MaxKeyDepth     \* max_key_depth

ASSUME CgiAssumption == MaxKeyDepth \in Nat \ {0} /\ Characters \cap {"=", "&", "[", "]"} = {}

Tokens == Characters \cup {"=", "&", "[", "]"}

\* string_view::find, with the length of the string for npos.
Find(str, token, pos) ==
    LET found == {i \in pos .. Len(str) : str[i] = token} IN
    IF found = {} THEN Len(str) + 1 ELSE CHOOSE i \in found : \A j \in found : i <= j

Least(a, b) == IF a <= b THEN a ELSE b

At(str, pos, token) == pos <= Len(str) /\ str[pos] = token

\* Mutant: a key without a value goes on behind the separator.
BaseEndPastSeparator(str, pos) == Least(Find(str, "=", pos), Find(str, "[", pos))

\* parse_base_key
BaseEnd(str, pos) == Least(Find(str, "=", pos), Least(Find(str, "&", pos), Find(str, "[", pos)))

\* Mutant: the depth of a key is not limited.
DepthUnlimited(depth) == FALSE

TooDeep(depth) == depth >= MaxKeyDepth

\* parse_subscripts, with depth keys on the stack: the keys, where the cursor stops,
\* and whether to go on.
Subscripts(str, pos) ==
    LET from[p \in 1 .. Len(str) + 1] ==
            LET end == Find(str, "]", p + 1) IN
            [depth \in 1 .. MaxKeyDepth + Len(str) |->
                IF ~At(str, p, "[") THEN [ok |-> TRUE, pos |-> p, keys |-> <<>>]
                ELSE IF end > Len(str) \/ TooDeep(depth) THEN [ok |-> FALSE, pos |-> p, keys |-> <<>>]
                ELSE [from[end + 1][depth + 1] EXCEPT !.keys = <<SubSeq(str, p + 1, end - 1)>> \o @]]
    IN  from[pos][1]

\* Mutant: the separator is not skipped.
SkipNothing(str, pos) == pos

SkipSeparator(str, pos) == IF At(str, pos, "&") THEN pos + 1 ELSE pos

\* One turn of the loop of cgi2params: what it assigns, where it goes on, and whether.
Turn(str, pos) ==
    LET base  == BaseEnd(str, pos)
        subs  == Subscripts(str, base)
        value == Find(str, "&", subs.pos + 1)
        keys  == <<SubSeq(str, pos, base - 1)>> \o subs.keys
    IN  IF ~subs.ok THEN [ok |-> FALSE, pos |-> pos, params |-> <<>>]
        ELSE IF At(str, subs.pos, "=")
        THEN [ok |-> TRUE, pos |-> SkipSeparator(str, value),
              params |-> <<[keys |-> keys, value |-> SubSeq(str, subs.pos + 1, value - 1)]>>]
        ELSE [ok |-> TRUE, pos |-> SkipSeparator(str, subs.pos), params |-> <<>>]

\* cgi2params, as long as its cursor advances.
Parse(str) ==
    LET from[pos \in 1 .. Len(str) + 1] ==
            IF pos > Len(str) THEN [ok |-> TRUE, params |-> <<>>]
            ELSE LET turn == Turn(str, pos)
                 IN  IF ~turn.ok \/ turn.pos <= pos THEN [ok |-> FALSE, params |-> <<>>]
                     ELSE [from[turn.pos] EXCEPT !.params = turn.params \o @]
    IN  from[1]

\* get_form_path: the first key, the others in brackets.
RenderKeys(keys) ==
    FlattenSeq([i \in 1 .. Len(keys) |-> IF i = 1 THEN keys[1] ELSE <<"[">> \o keys[i] \o <<"]">>])

\* params2cgi, for the leaves of a tree, in order.
Render(params) ==
    FlattenSeq([i \in 1 .. Len(params) |->
        (IF i = 1 THEN <<>> ELSE <<"&">>) \o RenderKeys(params[i].keys) \o <<"=">> \o params[i].value])
=============================================================================
