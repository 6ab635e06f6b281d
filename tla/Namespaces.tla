----------------------------- MODULE Namespaces -----------------------------
(***************************************************************************)
(* xml/src/document.cpp, element.cpp, attribute.cpp and writer.cpp: the    *)
(* namespace of an element or attribute, found from the definitions of its *)
(* ancestors when a document is read, and turned back into a prefix when   *)
(* it is written.                                                          *)
(*                                                                         *)
(* Only the ancestors matter to a name, so a document is the path from the *)
(* root to the element of the name, each element the list of its           *)
(* definitions (its xmlns attributes).  The set that holds them has no     *)
(* order, and none matters: it keeps no URI twice, and no element defines  *)
(* a prefix twice.                                                         *)
(***************************************************************************)
EXTENDS Integers, SequencesExt

CONSTANTS
    PrefixNames,    \* bound: prefixes of definitions, without the empty one
    Uris,           \* bound: URIs of definitions, without the empty one
    MaxDepth,       \* bound: elements on the path
    MaxDefinitions  \* bound: definitions in a document

VARIABLES
    path,   \* the definitions of each element, the root first
    name    \* the element or attribute at the end of the path

vars == <<path, name>>

Empty == "empty"  \* no prefix, or no URI
Absent == [prefix |-> Empty, uri |-> Empty]

-----------------------------------------------------------------------------
(* The set of attributes *)

\* All definitions have the empty name and are hashed by their URI: of those with one
\* URI the set keeps the first.
Kept(definitions) ==
    LET repeated(k) == \E j \in 1..(k - 1) : definitions[j].uri = definitions[k].uri
        indices == SelectSeq([k \in 1..Len(definitions) |-> k], LAMBDA k : ~ repeated(k))
    IN [k \in 1..Len(indices) |-> definitions[indices[k]]]

-----------------------------------------------------------------------------
(* document::resolve() *)

\* Faulty variants of the definitions below, used to test the properties.
EnterForgets(context, definitions) ==
    IF definitions = <<>> THEN context ELSE Kept(definitions)

\* The definitions themselves.

\* A definition replaces those of its URI, not those of its prefix.
Enter(context, definitions) ==
    SelectSeq(context, LAMBDA old : \A k \in 1..Len(definitions) : definitions[k].uri # old.uri)
    \o Kept(definitions)

Context(p) == FoldLeft(LAMBDA context, definitions : Enter(context, definitions), <<>>, p)

\* The first with the prefix is taken, so the outermost.
WithPrefix(context, prefix) == SelectInSeq(context, LAMBDA d : d.prefix = prefix)
Resolve(p, n) ==
    LET context == Context(p) k == WithPrefix(context, n.prefix)
    IN IF n.uri # Empty THEN n.uri ELSE IF k = 0 THEN Empty ELSE context[k].uri

-----------------------------------------------------------------------------
(* resolved_ns() and the writer *)

\* The innermost definition of the URI.
ResolvedNs(p, uri) ==
    LET found == SelectLastInSeq(p, LAMBDA definitions : \E k \in 1..Len(definitions) : definitions[k].uri = uri)
    IN IF found = 0 THEN Absent
       ELSE p[found][SelectInSeq(p[found], LAMBDA d : d.uri = uri)]

\* A name keeps its own prefix when the definition has none.
WrittenPrefix(p, n) ==
    LET definition == ResolvedNs(p, Resolve(p, n))
    IN IF definition.prefix # Empty THEN definition.prefix ELSE n.prefix
WrittenPath(p) == [i \in 1..Len(p) |-> Kept(p[i])]

-----------------------------------------------------------------------------
(* Documents: names from a text have a prefix, those that a program makes a URI *)

Definitions == [prefix : PrefixNames, uri : Uris] \union [prefix : {Empty}, uri : Uris \union {Empty}]
Names == {n \in [kind : {"element", "attribute"}, prefix : PrefixNames \union {Empty}, uri : Uris \union {Empty}] :
             n.prefix = Empty \/ n.uri = Empty}

Init == path = <<<<>>>> /\ name \in Names

Size == FoldLeft(LAMBDA n, definitions : n + Len(definitions), 0, path)

OpenElement == Len(path) < MaxDepth /\ path' = Append(path, <<>>)
Define ==
    /\ Size < MaxDefinitions
    /\ \E d \in Definitions :
          /\ \A k \in 1..Len(Last(path)) : Last(path)[k].prefix # d.prefix
          /\ path' = [path EXCEPT ![Len(path)] = Append(@, d)]

Next == (OpenElement \/ Define) /\ UNCHANGED name
Spec == Init /\ [][Next]_vars

-----------------------------------------------------------------------------
(* Properties *)

\* What the rules of XML namespaces make of a prefix: its innermost definition; an
\* attribute without a prefix has none.
Meant(p, kind, prefix) ==
    LET found == SelectLastInSeq(p, LAMBDA definitions : \E k \in 1..Len(definitions) : definitions[k].prefix = prefix)
    IN IF found = 0 \/ (kind = "attribute" /\ prefix = Empty) THEN Empty
       ELSE p[found][SelectInSeq(p[found], LAMBDA d : d.prefix = prefix)].uri

\* A document binds a prefix to one URI, and no other prefix to that URI.
Unambiguous(p, prefix, uri) ==
    \A i \in 1..Len(p) : \A k \in 1..Len(p[i]) :
        LET d == p[i][k] IN d.prefix = prefix <=> d.uri = uri

\* A prefix read from a text stands for what it means, unless it or its URI is bound
\* otherwise somewhere on the path.  Attributes without a prefix take the default namespace.
ReadsNamespaces ==
    name.uri = Empty =>
        LET meant == Meant(path, "element", name.prefix)
        IN Unambiguous(path, name.prefix, meant) => Resolve(path, name) = meant

\* A node whose namespace is defined is written with a prefix that stands for it in the
\* text, for this reader and for any other, but for attributes without a prefix.  What
\* no one defines is written as it was named: a URI that only the program gave is lost.
WritesBack ==
    LET uri == Resolve(path, name)
        prefix == WrittenPrefix(path, name)
        text == WrittenPath(path)
        definition == ResolvedNs(path, uri)
    IN definition # Absent /\ Unambiguous(path, definition.prefix, uri) =>
          /\ Resolve(text, [name EXCEPT !.prefix = prefix, !.uri = Empty]) = uri
          /\ name.kind = "element" \/ prefix # Empty => Meant(text, name.kind, prefix) = uri

Scopes == ReadsNamespaces /\ WritesBack
=============================================================================
