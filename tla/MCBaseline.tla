----------------------------- MODULE MCBaseline -----------------------------
(***************************************************************************)
(* BaselineMapper on every graph of four operations in which each reads    *)
(* the previous result or the first input, and on graphs whose caller      *)
(* requires storage for up to two values, names the mapper would choose    *)
(* itself among them.                                                      *)
(***************************************************************************)
EXTENDS BaselineMapper

Op1(name, kind, a) == [name |-> name, kind |-> kind, inputs |-> <<a>>]
Op2(name, kind, a, b) == [name |-> name, kind |-> kind, inputs |-> <<a, b>>]

Steps(name, firsts, seconds) ==
  {Op2(name, kind, a, b) : kind \in {"add", "linear"}, a \in firsts, b \in seconds}
  \cup {Op1(name, "softmax", a) : a \in firsts}

(* Matrix products take two slots, every other value one. *)
Numel(ops) ==
  [v \in {"x", "y"} \cup {ops[k].name : k \in DOMAIN ops} |->
     IF \E k \in DOMAIN ops : ops[k].name = v /\ ops[k].kind = "linear" THEN 3 ELSE 2]

GraphOf(ops, outs) ==
  [inputs |-> <<"x", "y">>, operations |-> ops, outputs |-> outs, numel |-> Numel(ops)]

Chains ==
  {GraphOf(<<p, q, r, t>>, <<"t">>) :
     p \in Steps("p", {"x"}, {"y"}), q \in Steps("q", {"x", "p"}, {"y"}),
     r \in Steps("r", {"x", "q"}, {"p"}), t \in Steps("t", {"x", "r"}, {"y", "p"})}

(* Three objects of one size live at once, then reused in turn. *)
Wide ==
  {GraphOf(<<Op1("p", "softmax", "x"), Op1("q", "softmax", "x"), Op2("r", "linear", "p", "q"),
             Op2("t", "rms_norm", "x", "y"), Op2("u", "rms_norm", "t", "y")>>, outs) :
     outs \in {<<"u">>, <<"u", "p">>, <<"r", "x">>}}

Target(slots, reference) ==
  [burst |-> 2, slots |-> slots, registers |-> 2, reference |-> reference]

Request(g, t, required) == [graph |-> g, target |-> t, constraints |-> required]

Require(v, s) == [value |-> v, storage |-> s]

Requirable(g) ==
  LET names == {Named("x"), Named("y"), Named("p"), Suffixed("p", 0), Named("q")}
      single == {<<Require(v, s)>> : v \in SeqRange(Values(g)), s \in names}
  IN  single \cup {c \o d : c \in {<<Require("q", s)>> : s \in names}, d \in single}

Constrained ==
  Wide \cup
  {GraphOf(<<Op1("p", "copy", "x"), Op2("q", "add", "x", "y"), Op1("r", "softmax", "p"),
             Op2("t", "add", "r", "q")>>, <<"t">>)}

MCRequests ==
  {Request(g, Target(6, TRUE), <<>>) : g \in Chains \cup Wide}
  \cup {Request(g, Target(3, TRUE), <<>>) : g \in Wide}
  \cup {Request(g, Target(6, FALSE), <<>>) : g \in Wide}
  \cup UNION {{Request(g, Target(8, TRUE), c) : c \in Requirable(g)} : g \in Constrained}

MCPlans(r) == {}
=============================================================================
