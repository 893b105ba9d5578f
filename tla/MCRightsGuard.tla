--------------------------- MODULE MCRightsGuard ---------------------------
(***************************************************************************)
(* An instance of RightsGuard for TLC: three users, three members (one not   *)
(* yet there in some starts), one custom role, three assignments.            *)
(***************************************************************************)
EXTENDS RightsGuard, TLC

CONSTANTS u1, u2, u3, m1, m2, m3, a1, a2, a3, r, full, viewer

MCGrants == [x \in {full, viewer} |-> IF x = full THEN {"x", "y"} ELSE {"x"}]

Row(m, role)   == [subject |-> m, role |-> role, mark |-> FALSE]
Role(g)        == [grants |-> g, mark |-> FALSE]
St(actor, mode, k, v) == [key |-> k, value |-> v, mode |-> mode, actor |-> actor]
Cmd(actor, k, v) == St(actor, "command", k, v)
Prog(stmts) == [stmts |-> stmts, rr |-> FALSE, immediate |-> FALSE, tool |-> None]
Tool(u)     == [stmts |-> <<>>, rr |-> FALSE, immediate |-> FALSE, tool |-> u]
\* The owner's sessions at another isolation level; checks at the end of statements.
Fixed(p)    == [p EXCEPT !.rr = TRUE]
AtOnce(p)   == [p EXCEPT !.immediate = TRUE]

MCPrograms ==
  { \* holders leave: by removal, by a mark, by a lesser role, by maintenance
    Prog(<<Cmd(u1, a1, Absent)>>),
    Prog(<<Cmd(u2, a2, [Row(m2, full) EXCEPT !.mark = TRUE])>>),
    Prog(<<Cmd(u1, a2, Row(m2, viewer))>>),
    Fixed(Prog(<<St(None, "maintenance", m2, u3)>>)),
    \* grants: to a new assignment, through the custom role, to oneself
    Prog(<<Cmd(u2, a3, Row(m3, full))>>),
    Prog(<<Cmd(u2, a3, Row(m3, r)), Cmd(u2, a3, Row(m2, r))>>),
    Prog(<<Cmd(u1, r, Role({"x", "y"})), Cmd(u2, a3, Row(m2, r))>>),
    Prog(<<Cmd(u2, a2, Row(m2, viewer)), Cmd(u2, a3, Row(m2, full))>>),
    Prog(<<Cmd(u2, a3, Row(m2, full)), Cmd(u2, r, Role({"x"}))>>),
    AtOnce(Prog(<<Cmd(u2, a3, Row(m2, viewer)), Cmd(u2, r, Role({"x", "y"}))>>)),
    \* a key that both a command and maintenance touch
    Prog(<<Cmd(u2, a3, Row(m3, full)), St(None, "maintenance", r, Role({"x"})),
           Cmd(u2, r, Role({"x"}))>>),
    \* the custom role is widened while it is assigned, and marked
    Prog(<<Cmd(u1, r, Role({"x", "y"}))>>), Prog(<<Cmd(u2, r, Role({"x", "y"}))>>),
    Prog(<<Cmd(u1, r, [grants |-> {"x"}, mark |-> TRUE])>>),
    Fixed(Prog(<<St(None, "maintenance", r, [grants |-> {"x"}, mark |-> TRUE])>>)),
    \* invitations, validity
    Prog(<<Cmd(u3, m3, u3)>>),
    Prog(<<St(u3, "outside", m3, u3)>>), Prog(<<St(u3, "outside", m2, u3)>>),
    Prog(<<St(None, "outside", u2, FALSE)>>), Prog(<<St(None, "outside", u1, TRUE)>>),
    Prog(<<St(u1, "outside", a2, Absent)>>),
    \* a member goes: the foreign key
    Prog(<<St(None, "maintenance", m1, Absent)>>), Prog(<<Cmd(u1, m3, Absent)>>),
    \* ... outside a command it may go and come back as another user's
    Prog(<<St(None, "outside", m3, Absent), St(None, "outside", m3, u3)>>),
    Tool(u2), Tool(u3) }

\* Two holders; one holder and a lesser member, two invitations; no valid holder.
MCStarts ==
  { u1 :> TRUE @@ u2 :> TRUE @@ u3 :> TRUE @@ m1 :> u1 @@ m2 :> u2 @@ m3 :> None
      @@ r :> Role({"x"}) @@ a1 :> Row(m1, full) @@ a2 :> Row(m2, full) @@ a3 :> Absent,
    u1 :> TRUE @@ u2 :> TRUE @@ u3 :> TRUE @@ m1 :> u1 @@ m2 :> None @@ m3 :> None
      @@ r :> Role({"x"}) @@ a1 :> Row(m1, full) @@ a2 :> Row(m2, viewer) @@ a3 :> Row(m3, viewer),
    u1 :> FALSE @@ u2 :> TRUE @@ u3 :> TRUE @@ m1 :> u1 @@ m2 :> u2 @@ m3 :> Absent
      @@ r :> Role({"x"}) @@ a1 :> Row(m1, full) @@ a2 :> Row(m2, r) @@ a3 :> Absent }
=============================================================================
