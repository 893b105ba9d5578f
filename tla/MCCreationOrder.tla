-------------------------- MODULE MCCreationOrder --------------------------
(***************************************************************************)
(* Inputs of CreationOrder for TLC: tables and units that refer to each      *)
(* other in every way, with objects of one name in two schemas; grants,      *)
(* revocations, default privileges and an extension around them.             *)
(***************************************************************************)
EXTENDS CreationOrder

Obj(class, schema, key, names, refs) ==
  [class |-> class, schema |-> schema, key |-> key, names |-> names, refs |-> refs,
   requires |-> {}, targets |-> {}, within |-> {}]
Ref(schema, name) == [schema |-> schema, name |-> name]
AtMost(k, S) == {T \in SUBSET S : Cardinality(T) <= k}

\* Labels are not in the order of creation; v is a view in both schemas.
Everything == {Ref(1, "t"), Ref(1, "v"), Ref(2, "v"), Ref(Bare, "v"), Ref(Bare, "f")}
Tangled ==
  {(3 :> Obj("table", 1, 1, {"t"}, rt) @@ 1 :> Obj("object", 1, 2, {"v"}, rv)
    @@ 4 :> Obj("object", 2, 3, {"v"}, rw) @@ 2 :> Obj("object", 1, 4, {"f"}, rf)) :
     rt \in AtMost(2, Everything), rv \in AtMost(2, Everything),
     rw \in AtMost(2, Everything), rf \in AtMost(2, Everything)}

\* Privileges: a table in 1, a function in 2 that GRANT and REVOKE may spell in two
\* ways, a grant and a REVOKE, an extension.
Of(label) == [object |-> label, spelt |-> "plain"]
As(label) == [object |-> label, spelt |-> "other"]
Grant(class, key, targets) == [Obj(class, Bare, key, {}, {}) EXCEPT !.targets = targets]
Adp(key, schemas) == [Obj("defaultPrivileges", Bare, key, {}, {}) EXCEPT !.within = schemas]
Privileged ==
  {(1 :> Obj("table", 1, 1, {"t"}, rt) @@ 2 :> [Obj("object", 2, 2, {"v"}, rv) EXCEPT !.requires = {6}]
    @@ 3 :> Grant("grant", kg, tg) @@ 4 :> Grant("revoke", kr, tr) @@ 5 :> Adp(ka, within)
    @@ 6 :> Obj("extension", Bare, 6, {}, {})) :
     rt \in AtMost(1, {Ref(Bare, "v"), Ref(2, "v")}), rv \in AtMost(1, {Ref(1, "t"), Ref(Bare, "t")}),
     kg \in {3, 7}, kr \in {4, 8}, ka \in {0, 9}, tg \in {{Of(1)}, {Of(1), Of(2)}},
     tr \in {{Of(1)}, {Of(2)}, {Of(1), Of(2)}, {Of(1), As(2)}}, within \in {{}, {1}, {2}}}

\* A domain, a GRANT on it as a TYPE, a REVOKE on it as a DOMAIN; the keys of the
\* statements begin with "grant:grant:" and "grant:revoke:".
MCSpeltTwice ==
  {(1 :> Obj("object", 1, 1, {"v"}, {})
    @@ 2 :> Grant("grant", 2, {Of(1)}) @@ 3 :> Grant("revoke", 3, {x})) : x \in {Of(1), As(1)}}

MCModels == Tangled \cup Privileged
MCPaths == {<<1>>, <<2>>, <<1, 2>>, <<2, 1>>}
=============================================================================
