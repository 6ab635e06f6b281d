------------------------------ MODULE XmlQuery ------------------------------
(***************************************************************************)
(* xml/src/query.cpp: an XPath query is compiled to a list of steps and    *)
(* evaluated on a document.  A query is a sequence of words and special    *)
(* characters, a name a sequence of words.                                 *)
(*                                                                         *)
(* The parser pushes back only what it has just read, so the tokens it     *)
(* sees are always the rest of one sequence, and it is a function of a     *)
(* place in that sequence.                                                 *)
(***************************************************************************)
EXTENDS Integers, SequencesExt

CONSTANTS
    Words,      \* bound: words that names are made of; "text" names the function
    MaxPieces,  \* bound: words and characters of a query
    MaxPath,    \* bound: steps of a query that is written from its steps
    MaxNodes    \* bound: nodes of a document

VARIABLES
    query,  \* the query
    path    \* history: the steps it was written from, or none

vars == <<query, path>>

End == "end"
Special == {"(", ")", "[", "]", "@", ":"}
\* "." is in none of the classes of characters.
Pieces == Words \union {"(", ")", "[", "@", ":", "/", "."}

-----------------------------------------------------------------------------
(* lex() *)

At(q, p) == IF p <= Len(q) THEN q[p] ELSE End
Advance(q, p) == IF p < Len(q) THEN p + 1 ELSE Len(q) + 1

\* The end of the name that begins at p.
NameEnd(q, p) == CHOOSE e \in p..(Len(q) + 1) : At(q, e) \notin Words /\ \A k \in p..(e - 1) : q[k] \in Words

Token(kind) == [kind |-> kind, name |-> <<>>]

\* Faulty variants of the definitions below, used to test the properties.
LexSeparatorEatsOn(q, p) ==
    LET ch == At(q, p) next == Advance(q, p)
    IN CASE ch = End -> [token |-> Token(End), next |-> p]
         [] ch = "/" -> [token |-> Token("/"), next |-> Advance(q, next)]
         [] ch \in Special \ {":"} -> [token |-> Token(ch), next |-> next]
         [] ch \in Words -> [token |-> [kind |-> "name", name |-> SubSeq(q, p, NameEnd(q, p) - 1)],
                             next |-> NameEnd(q, p)]
         [] OTHER -> [token |-> Token("error"), next |-> p]

\* The definitions themselves.

\* A colon advances twice before it looks for the second colon.
Lex(q, p) ==
    LET ch == At(q, p) next == Advance(q, p)
    IN CASE ch = End -> [token |-> Token(End), next |-> p]
         [] ch = ":" -> [token |-> Token(IF At(q, Advance(q, next)) = ":" THEN "::" ELSE "error"),
                         next |-> Advance(q, next)]
         [] ch \in Special \ {":"} -> [token |-> Token(ch), next |-> next]
         [] ch = "/" -> IF At(q, next) = "/" THEN [token |-> Token("//"), next |-> Advance(q, next)]
                        ELSE [token |-> Token("/"), next |-> next]
         [] ch \in Words -> [token |-> [kind |-> "name", name |-> SubSeq(q, p, NameEnd(q, p) - 1)],
                             next |-> NameEnd(q, p)]
         [] OTHER -> [token |-> Token("error"), next |-> p]

\* All tokens up to the first error or the end, which is returned ever after.
RECURSIVE TokensFrom(_, _)
TokensFrom(q, p) ==
    LET lexed == Lex(q, p)
    IN IF lexed.token.kind \in {"error", End} THEN <<lexed.token>>
       ELSE <<lexed.token>> \o TokensFrom(q, lexed.next)
Tokens(q) == TokensFrom(q, 1)

Kind(tokens, i) == IF i <= Len(tokens) THEN tokens[i].kind ELSE End

-----------------------------------------------------------------------------
(* The rules: a step and the place after it, or an exception *)

Step(axis, name) == [axis |-> axis, name |-> name]
None == <<Step("none", <<>>)>>
Throws == [step |-> Step("throws", <<>>), next |-> 0]
Read(axis, tokens, i, next) == [step |-> Step(axis, tokens[i].name), next |-> next]

\* reduce_axis_step().  An axis in words is pushed back with its "::", since its
\* case falls through: the name test that should follow is the "::".
Axes == {<<"attribute">>, <<"child">>, <<"descendant-or-self">>}
NameTest(axis, tokens, i) ==
    IF Kind(tokens, i + 1) = "::"
    THEN IF tokens[i].name \in Axes /\ Kind(tokens, i + 1) = "name"
         THEN Read(axis, tokens, i + 1, i + 2) ELSE Throws
    ELSE IF Kind(tokens, i + 1) = "error" THEN Throws
    ELSE Read(axis, tokens, i, i + 1)
AxisStep(tokens, i) ==
    IF Kind(tokens, i) = "@"
    THEN IF Kind(tokens, i + 1) = "name" THEN NameTest("attribute", tokens, i + 1) ELSE Throws
    ELSE NameTest("child", tokens, i)

\* reduce_postfix_expr().
PostfixExpr(tokens, i) ==
    IF Kind(tokens, i) = "name" /\ Kind(tokens, i + 2) = ")"
    THEN Read("function", tokens, i, i + 3) ELSE Throws

\* reduce_step_expr(), of which the token after the first decides.
StepExpr(tokens, i) ==
    LET first == Kind(tokens, i) second == Kind(tokens, i + 1)
    IN CASE first \notin {"name", "@"} -> Throws
         [] second = "(" -> PostfixExpr(tokens, i)
         [] second \in {End, "/", "//", "::", "[", "name"} ->
                IF first = "@" /\ second # "name" THEN Throws ELSE AxisStep(tokens, i)
         [] OTHER -> Throws

\* reduce_path_expr(): the kind of a separator is not recorded, and what follows the
\* last step is pushed back and never read.  The message of an error after a step is that
\* of the first token, which has one only if it is a name.
Failed == <<Step("throws", <<>>)>>
Undefined == <<Step("undefined", <<>>)>>
RECURSIVE StepsFrom(_, _, _)
StepsFrom(tokens, i, steps) ==
    LET read == StepExpr(tokens, i)
        after == Kind(tokens, read.next)
    IN CASE Kind(tokens, i) = End -> steps
         [] read = Throws -> Failed
         [] after = "error" -> IF tokens[1].kind = "name" THEN Failed ELSE Undefined
         [] after \in {"/", "//"} -> StepsFrom(tokens, read.next + 1, Append(steps, read.step))
         [] OTHER -> Append(steps, read.step)

Compile(q) ==
    LET tokens == Tokens(q)
    IN CASE tokens[1].kind = "error" -> Failed
         [] tokens[1].kind \in {"/", "//", End} -> StepsFrom(tokens, 2, <<>>)
         [] OTHER -> StepsFrom(tokens, 1, <<>>)

-----------------------------------------------------------------------------
(* Documents: nodes are numbered, 0 is the document and 1 its root element *)

Kinds == {"element", "attribute", "text", "cdata"}
Names(kind) == IF kind \in {"element", "attribute"} THEN {<<w>> : w \in Words} ELSE {<<>>}
Node == UNION {[kind : {k}, name : Names(k), parent : 0..(MaxNodes - 1)] : k \in Kinds}

\* All documents of n nodes.
RECURSIVE DocumentsOf(_)
DocumentsOf(n) ==
    IF n = 1 THEN {<<[kind |-> "element", name |-> <<w>>, parent |-> 0]>> : w \in Words}
    ELSE {Append(doc, node) : doc \in DocumentsOf(n - 1), node \in Node}
\* Names have no prefixes here, so an element has one attribute of a name.
Wellformed(doc) ==
    /\ \A i \in 2..Len(doc) : doc[i].parent \in 1..(i - 1) /\ doc[doc[i].parent].kind = "element"
    /\ \A i, j \in 2..Len(doc) : i < j /\ doc[i].kind = "attribute" => doc[i] # doc[j]
Documents == {doc \in UNION {DocumentsOf(n) : n \in 1..MaxNodes} : Wellformed(doc)}

\* In document order.
Attributes(doc, n) == SelectSeq([i \in 1..Len(doc) |-> i], LAMBDA i : doc[i].parent = n /\ doc[i].kind = "attribute")
Children(doc, n) == SelectSeq([i \in 1..Len(doc) |-> i], LAMBDA i : doc[i].parent = n /\ doc[i].kind # "attribute")

-----------------------------------------------------------------------------
(* evaluate() *)

\* A result is a list of nodes or a list of strings, a string the list of its parts.
Nodes(result) == [nodes |-> result, strings |-> <<>>]

\* A step on one node of the context.
Selected(doc, step, n) ==
    LET found == IF step.axis = "attribute" THEN Attributes(doc, n) ELSE Children(doc, n)
    IN SelectSeq(found, LAMBDA i : doc[i].kind \in {"element", "attribute"} /\ doc[i].name = step.name)

TextOf(doc, n) == SelectSeq(Children(doc, n), LAMBDA i : doc[i].kind \in {"text", "cdata"})

EvaluateStep(doc, step, context) ==
    IF step.axis # "function"
    THEN Nodes(FlattenSeq([k \in 1..Len(context) |-> Selected(doc, step, context[k])]))
    ELSE [nodes |-> <<>>,
          strings |-> IF step.name = <<"text">>
                      THEN [k \in 1..Len(context) |-> TextOf(doc, context[k])] ELSE <<>>]

\* The strings of a step are no context for the next.
Evaluate(doc, steps, node) ==
    LET Next1(result, step) ==
            EvaluateStep(doc, step, result.nodes)
    IN IF steps = <<>> THEN Nodes(<<>>)
       ELSE FoldLeft(Next1, Nodes(<<node>>), steps)

-----------------------------------------------------------------------------
(* Queries *)

Steps == [axis : {"attribute", "child", "function"}, name : {<<w>> : w \in Words}]

Written(step) ==
    CASE step.axis = "attribute" -> <<"@">> \o step.name
      [] step.axis = "child" -> step.name
      [] OTHER -> step.name \o <<"(", ")">>
Query(steps) == FlattenSeq([k \in 1..Len(steps) |-> IF k = 1 THEN Written(steps[k]) ELSE <<"/">> \o Written(steps[k])])

\* Any query, or one that is written from its steps.
Init ==
    \/ query = <<>> /\ path = None
    \/ \E n \in 1..MaxPath : \E steps \in [1..n -> Steps], root \in {<<>>, <<"/">>} :
          query = root \o Query(steps) /\ path = steps

\* Queries grow as long as what is there was not refused; words do not grow.
Extend ==
    /\ path = None /\ Len(query) < MaxPieces
    /\ \A i \in 1..Len(Tokens(query)) : Tokens(query)[i].kind # "error"
    /\ \E piece \in Pieces :
          /\ ~ (query # <<>> /\ Last(query) \in Words /\ piece \in Words)
          /\ query' = Append(query, piece)
    /\ UNCHANGED path

Next == Extend
Spec == Init /\ [][Next]_vars

-----------------------------------------------------------------------------
(* Properties *)

\* What is not in the grammar that query.cpp quotes and is compiled all the same: "//" is
\* taken for "/", and after the last step there may be a separator, or a rest that is not
\* read.
Collapsed(q) ==
    LET kept == SelectSeq([k \in 1..Len(q) |-> k], LAMBDA k : ~ (k > 1 /\ q[k] = "/" /\ q[k - 1] = "/"))
    IN [k \in 1..Len(kept) |-> q[kept[k]]]
Accepted(q, steps) ==
    \E k \in 0..Len(q) :
        /\ SubSeq(q, 1, k) \in {Query(steps), <<"/">> \o Query(steps)}
        /\ k < Len(q) => q[k + 1] # "." /\ (q[k + 1] = "/" => k + 1 = Len(q))

\* The nodes that a path of names leads to, going up from them.
RECURSIVE LeadsTo(_, _, _, _)
LeadsTo(doc, steps, node, n) ==
    IF steps = <<>> THEN n = node
    ELSE /\ n # 0
         /\ doc[n].kind = (IF Last(steps).axis = "child" THEN "element" ELSE "attribute")
         /\ doc[n].name = Last(steps).name
         /\ LeadsTo(doc, Front(steps), node, doc[n].parent)

\* The place of a node in the document, as the path of numbers to it.
RECURSIVE Place(_, _)
Place(doc, n) == IF n = 0 THEN <<>> ELSE Append(Place(doc, doc[n].parent), n)
Before(a, b) == \E k \in 1..Len(a) : k <= Len(b) /\ a[k] < b[k] /\ SubSeq(a, 1, k - 1) = SubSeq(b, 1, k - 1)

\* Every query that is written from steps is compiled to them, and what is compiled
\* was written from its steps, but for separators and the rest after the last step.
CompilesFaithfully ==
    LET steps == Compile(query)
    IN /\ path # None => steps = path
       /\ path = None /\ steps \notin {Failed, Undefined, <<>>} =>
             Accepted(Collapsed(query), steps)

\* A path of names selects exactly the nodes it leads to, each once and in document
\* order, whatever the document and the node it starts from; text() gives one string
\* for each node before it.
SelectsPath ==
    path # None =>
        \A doc \in Documents : \A node \in 0..1 :
            LET result == Evaluate(doc, path, node)
                names == SelectSeq(path, LAMBDA s : s.axis # "function")
                found == IF names = path THEN result.nodes
                         ELSE IF names = <<>> THEN <<node>> ELSE Evaluate(doc, Front(path), node).nodes
            IN names \in {path, Front(path)} =>
                  /\ ToSet(found) = {n \in (0..Len(doc)) : LeadsTo(doc, names, node, n)}
                  /\ \A i, j \in 1..Len(found) : i < j => Before(Place(doc, found[i]), Place(doc, found[j]))
                  /\ names # path /\ Last(path).name = <<"text">> =>
                        /\ Len(result.strings) = Len(found)
                        /\ \A i \in 1..Len(found) : ToSet(result.strings[i]) =
                              {n \in 1..Len(doc) : doc[n].parent = found[i] /\ doc[n].kind \in {"text", "cdata"}}

Selects == CompilesFaithfully /\ SelectsPath
=============================================================================
