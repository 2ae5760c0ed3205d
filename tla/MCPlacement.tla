----------------------------- MODULE MCPlacement -----------------------------
(* Placement instantiated for TLC: two images and two nodes, tags typed in  *)
(* either case.                                                             *)
EXTENDS Placement, TLC

CONSTANTS a, b

Templates == {100, 101}
TypedTags == {"a", "A", "b", "", "!"}
Normalized == "a" :> a @@ "A" :> a @@ "b" :> b @@ "" :> Blank @@ "!" :> Invalid

ByTag(tags, match) ==
  [vmid |-> 0, tags |-> tags, match |-> match, node |-> 0, allowed |-> {}]

SomeForms ==
  { ByTag({"a", "A", ""}, "subset"),
    [ByTag({"a", "A"}, "exact") EXCEPT !.allowed = {1}],
    [ByTag({"a", "b"}, "subset") EXCEPT !.node = 2],
    [ByTag({}, "subset") EXCEPT !.vmid = 100],
    ByTag({"!", "a"}, "subset"), ByTag({""}, "subset"), ByTag({"a"}, "other"),
    [ByTag({"a"}, "exact") EXCEPT !.vmid = 100],
    [ByTag({"a"}, "exact") EXCEPT !.node = 1, !.allowed = {1}] }

(* The image in use and the next one: not there yet, still a VM, or a       *)
(* template with the tag as well.                                           *)
SomeClusters ==
  LET Image(kind, tags, n, shared) ==
        [kind |-> kind, tags |-> tags, node |-> n, shared |-> shared]
  IN {100 :> Image("template", {a}, 1, sh) @@ 101 :> next :
        sh \in BOOLEAN,
        next \in {NoGuest, Image("vm", {a}, 2, TRUE),
                  Image("template", {a, b}, 2, TRUE),
                  Image("template", {b}, 1, FALSE)}}
===============================================================================
