---------------------------- MODULE AbstractOps ----------------------------
(***************************************************************************)
(* The operators of the algebra as a client sees them: a growing list of   *)
(* relational expressions, each with its kind, the expressions it is built *)
(* on and its header, which is unordered here.  What an operator was given *)
(* besides its operands is not kept: a step only has to be explained by    *)
(* some names, some type or some nested header.                            *)
(***************************************************************************)
EXTENDS HeaderAlgebra

VARIABLE exprs   \* sequence of records [kind, inputs, header]

Same(f, g) == When(f = g, f)

(***************************************************************************)
(* The headers an expression of each kind may have.                        *)
(***************************************************************************)
OnOne(kind, f, h) ==
  \/ kind \in {"Restrict", "Order", "Limit"} /\ h = f
  \/ kind = "Project" /\ \E names \in SUBSET DOMAIN f : h \in Projected(f, names)
  \/ kind = "Rename" /\ \E from, to \in Name : h \in Renamed(f, from, to)
  \/ kind = "Extend" /\ \E n \in DOMAIN h : h \in Extended(f, n, h[n])
  \/ kind = "Unnest" /\ \E n \in DOMAIN f : h \in Unnested(f, n)
  \/ kind = "Nest" /\ \E names \in SUBSET DOMAIN f, into \in Name :
                        h \in Nested(f, names, into)
  \/ kind = "Summarize" /\ \E keys \in SUBSET DOMAIN f : Summarizes(f, keys, h)

OnTwo(kind, f, g, h) ==
  \/ kind = "Product" /\ h \in Concatenated(f, g)
  \/ kind = "Join" /\ h \in Concatenated(f, g) \cup Coalesced(f, g)
  \/ kind \in {"Union", "Intersect", "Difference"} /\ h \in Same(f, g)
  \/ kind = "Modify" /\ \E n \in DOMAIN f, s \in Orders(g) : h \in Refocused(f, n, s)

Explained(x) ==
  \/ x.kind = "Source" /\ x.inputs = <<>>
  \/ \E i \in DOMAIN exprs :
       x.inputs = <<i>> /\ OnOne(x.kind, exprs[i].header, x.header)
  \/ \E i, j \in DOMAIN exprs :
       /\ x.inputs = <<i, j>>
       /\ OnTwo(x.kind, exprs[i].header, exprs[j].header, x.header)

Init == exprs = <<>>

(***************************************************************************)
(* An expression is added; none is ever changed.                           *)
(***************************************************************************)
Build ==
  LET x == exprs'[Len(exprs) + 1]
  IN  /\ Len(exprs') = Len(exprs) + 1
      /\ exprs' = Append(exprs, x)
      /\ Fits(x.header)
      /\ Explained(x)

Spec == Init /\ [][Build]_exprs
============================================================================
