------------------------ MODULE MCRegistryIdentity ------------------------
(* Instances of RegistryIdentity for TLC.  Two versions of a format with   *)
(* their PRONOM records, a LOC description, a NARA record in several       *)
(* editions and institutional policy rows.                                 *)
EXTENDS RegistryIdentity

CONSTANT Parts  \* which sources take part

Strong(kind, value) == [kind |-> kind, value |-> <<value>>]
fmt1 == Strong("puid", "fmt/1")
fmt2 == Strong("puid", "fmt/2")
fdd1 == Strong("loc", "fdd1")
nf1 == Strong("nara", "NF1")

Kinds == {"puid", "loc", "nara"}
RankOf == [puid |-> 1, loc |-> 2, nara |-> 3]
VersionOf == [Foo |-> {}, Foo10 |-> {"1.0"}, Foo11 |-> {"1.1"}, FooFamily |-> {}]
Names == DOMAIN VersionOf
BroadNames == {"FooFamily"}

Row(source, id, own, name, extensions, copied) ==
  [ref |-> [source |-> source, id |-> id], own |-> own, name |-> name,
   extensions |-> extensions, copied |-> copied]

Pronom == {Row("pronom", "1", fmt1, "Foo10", {"foo"}, {}),
           Row("pronom", "2", fmt2, "Foo11", {"foo"}, {})}
Loc == {Row("loc", "1", fdd1, "Foo10", {}, {fmt1}),
        Row("loc", "1", fdd1, "Foo", {"foo"}, {fmt1})}
Nara == {Row("nara", "1", nf1, "Foo10", {"foo", "fo"}, {fmt1, fdd1}),
         Row("nara", "1", nf1, "FooFamily", {"foo"}, {fmt1, fmt2})}
Policy == {Row("policy", "1", NoId, "Foo10", {"foo", "fo"}, {}),
           Row("policy", "1", NoId, "Foo11", {"foo"}, {fmt1}),
           Row("policy", "2", NoId, "Foo11", {}, {})}

Records == UNION {CASE p = "pronom" -> Pronom [] p = "loc" -> Loc
                    [] p = "nara" -> Nara [] p = "policy" -> Policy : p \in Parts}

Deliveries == {R \in SUBSET Records : \A r, s \in R : r.ref = s.ref => r = s}

=============================================================================
