------------------------------ MODULE JsonDiff ------------------------------
(***************************************************************************)
(* json_diff (json_diff.hpp), which makes the patch that a round of the    *)
(* caller loop sends, and a client that applies it as RFC 6902 says.       *)
(*                                                                         *)
(* A JSON value is a record of its kind and its contents: a number for a   *)
(* scalar, a sequence for an array, a function on keys for an object.  A   *)
(* pointer is a sequence of tokens; "-" is the end of an array.            *)
(***************************************************************************)
EXTENDS Integers, Sequences, SequencesExt

CONSTANTS
    Keys,         \* keys that objects have or not
    Scalars,      \* the values of members
    MaxTorrents,  \* bound: elements of the array "torrents"
    MaxGrowth     \* bound: how many of them a round may add

ASSUME JsonDiffAssumption == MaxTorrents \in Nat /\ MaxGrowth \in Nat

VARIABLES
    prev_stats,   \* the document of the last round
    doc           \* the document of the client

vars == <<prev_stats, doc>>

-----------------------------------------------------------------------------
(* Values, pointers and operations *)

Null      == [kind |-> "null", v |-> 0]
Missing   == [kind |-> "missing", v |-> 0]   \* the outcome of a patch that fails
Scalar(x) == [kind |-> x[1], v |-> x[2]]
Array(s)  == [kind |-> "array", v |-> s]
Object(f) == [kind |-> "object", v |-> f]
Same(a, b) == a.kind = b.kind /\ a.v = b.v

Key(k)   == [key |-> k, at |-> 0]
Index(i) == [key |-> "", at |-> i]
AtEnd    == [key |-> "-", at |-> 0]

ReplaceOp(path, x) == [op |-> "replace", path |-> path, value |-> x]
AddOp(path, x)     == [op |-> "add", path |-> path, value |-> x]
RemoveOp(path)     == [op |-> "remove", path |-> path, value |-> Missing]

-----------------------------------------------------------------------------
(* json_diff *)

RECURSIVE json_diff(_, _, _)

\* Elements both arrays have.
ElementDiffs(src, tgt, path) ==
    FlattenSeq([i \in 1 .. (IF Len(src) < Len(tgt) THEN Len(src) ELSE Len(tgt)) |->
                   json_diff(src[i], tgt[i], Append(path, Index(i - 1)))])

\* How many elements the first sequence has beyond the second.
Surplus(s, t) == IF Len(s) > Len(t) THEN Len(s) - Len(t) ELSE 0

\* Mutant of Removals: from the first surplus element to the last.
RemovalsForward(src, tgt, path) ==
    [k \in 1 .. Surplus(src, tgt) |-> RemoveOp(Append(path, Index(Len(tgt) + k - 1)))]

\* Surplus elements of the source, from the last to the first.
Removals(src, tgt, path) ==
    [k \in 1 .. Surplus(src, tgt) |-> RemoveOp(Append(path, Index(Len(src) - k)))]

\* Surplus elements of the target: the loop increments its index twice.
Additions(src, tgt, path) ==
    [k \in 1 .. (Surplus(tgt, src) + 1) \div 2 |->
        AddOp(Append(path, AtEnd), tgt[Len(src) + 2 * k - 1])]

\* Members of the source: compared, or removed.
MemberDiffs(src, tgt, path) ==
    FlattenSeq([i \in 1 .. Len(SetToSeq(DOMAIN src)) |->
        LET k == SetToSeq(DOMAIN src)[i]
        IN  IF k \in DOMAIN tgt
            THEN json_diff(src[k], tgt[k], Append(path, Key(k)))
            ELSE <<RemoveOp(Append(path, Key(k)))>>])

\* Members that only the target has.
NewMembers(src, tgt, path) ==
    LET new == SetToSeq(DOMAIN tgt \ DOMAIN src)
    IN  [i \in 1 .. Len(new) |-> AddOp(Append(path, Key(new[i])), tgt[new[i]])]

json_diff(source, target, path) ==
    CASE Same(source, target) -> <<>>
      [] source.kind # target.kind -> <<ReplaceOp(path, target)>>
      [] ~Same(source, target) /\ source.kind = "array" /\ target.kind = "array" ->
            ElementDiffs(source.v, target.v, path) \o Removals(source.v, target.v, path)
            \o Additions(source.v, target.v, path)
      [] ~Same(source, target) /\ source.kind = "object" /\ target.kind = "object" ->
            MemberDiffs(source.v, target.v, path) \o NewMembers(source.v, target.v, path)
      [] OTHER -> <<ReplaceOp(path, target)>>

-----------------------------------------------------------------------------
(* The client (external): RFC 6902 *)

\* A member or an element is there to be replaced, removed or entered.
Has(x, token) ==
    \/ x.kind = "object" /\ token.key \in DOMAIN x.v
    \/ x.kind = "array" /\ token.key = "" /\ token.at < Len(x.v)

Get(x, token) == IF x.kind = "object" THEN x.v[token.key] ELSE x.v[token.at + 1]

Put(x, token, y) ==
    IF x.kind = "object"
    THEN Object([k \in DOMAIN x.v \cup {token.key} |-> IF k = token.key THEN y ELSE x.v[k]])
    ELSE Array([x.v EXCEPT ![token.at + 1] = y])

Without(x, token) ==
    IF x.kind = "object"
    THEN Object([k \in DOMAIN x.v \ {token.key} |-> x.v[k]])
    ELSE Array(RemoveAt(x.v, token.at + 1))

RECURSIVE ApplyAt(_, _, _)

ApplyAt(x, path, o) ==
    IF path = <<>> THEN o.value
    ELSE LET token == Head(path)
             leaf  == Len(path) = 1
         IN  CASE leaf /\ o.op = "add" /\ token = AtEnd /\ x.kind = "array" ->
                      Array(Append(x.v, o.value))
               [] leaf /\ o.op = "add" /\ x.kind = "object" -> Put(x, token, o.value)
               [] leaf /\ o.op = "replace" /\ Has(x, token) -> Put(x, token, o.value)
               [] leaf /\ o.op = "remove" /\ Has(x, token) -> Without(x, token)
               [] ~leaf /\ Has(x, token) ->
                      Put(x, token, ApplyAt(Get(x, token), Tail(path), o))
               [] OTHER -> Missing

ApplyPatch(x, patch) == FoldLeft(LAMBDA d, o : ApplyAt(d, o.path, o), x, patch)

-----------------------------------------------------------------------------
(* Rounds of the caller loop *)

Objects   == UNION {[D -> {Scalar(x) : x \in Scalars}] : D \in SUBSET Keys}
Documents == {Object([stats |-> Object(f), torrents |-> Array(s)]) :
                 f \in Objects,
                 s \in UNION {[1 .. n -> {Object(g) : g \in Objects}] : n \in 0 .. MaxTorrents}}

NumTorrents(x) == IF x.kind = "object" THEN Len(x.v.torrents.v) ELSE MaxTorrents

Init == prev_stats = Null /\ doc = Null

\* doLoop: the client is sent the difference to the present state.
Round(curr_stats) ==
    /\ NumTorrents(curr_stats) <= NumTorrents(prev_stats) + MaxGrowth
    /\ doc' = ApplyPatch(doc, json_diff(prev_stats, curr_stats, <<>>))
    /\ prev_stats' = curr_stats

Next == \E curr_stats \in Documents : Round(curr_stats)

Spec == Init /\ [][Next]_vars

-----------------------------------------------------------------------------
(* Properties *)

\* A patch applies, and makes the target of json_diff from its source.  With
\* MaxGrowth = 1 it is what the code promises when no round adds two torrents.
PatchReproduces == Same(doc, prev_stats)

=============================================================================
