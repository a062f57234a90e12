------------------------------- MODULE TypeOf -------------------------------
(***************************************************************************)
(* The types that the tracer gives to values: get_type_of_sexp and what it *)
(* calls (utilities.cpp), and the Type that is made from one (Type.h).     *)
(*                                                                         *)
(* A type is a sequence of the pieces that the code appends; a name is one *)
(* too, its pieces being what the code looks for in it.  Class names are   *)
(* numbers, in the order of std::sort; their backticks are left out.        *)
(*                                                                         *)
(* get_class_names comes first: it has an answer for every function,       *)
(* symbol, call, matrix, array and data frame, so their cases further down *)
(* are never reached and are left out here.                                *)
(***************************************************************************)
EXTENDS Integers, Sequences, FiniteSets, SequencesExt

Vectors == {"logical", "integer", "double", "complex", "character", "raw"}

FunctionKinds == {"closure", "special", "builtin"}

(***************************************************************************)
(* A value is [kind, class, dim, elts, named, names].  The elements of a   *)
(* vector are "v", "NA" and, for a complex number, "NAi" (only the         *)
(* imaginary part is NA); those of a list are values.  A call's elements   *)
(* are <<head>>, a promise's are <<value or expression>>.                  *)
(***************************************************************************)
Value(kind, elts) ==
    [kind |-> kind, class |-> <<>>, dim |-> <<>>, elts |-> elts,
     named |-> FALSE, names |-> <<>>]

\* R: the names of the attributes that a value has.
AttrNames(v) ==
    (IF v.class # <<>> THEN <<"class">> ELSE <<>>)
        \o (IF v.dim # <<>> THEN <<"dim">> ELSE <<>>) \o (IF v.named THEN <<"names">> ELSE <<>>)

\* Parts with a separator between them.
Joined(parts, separator) ==
    FlattenSeq([i \in 1..Len(parts) |->
                  IF i = Len(parts) THEN parts[i] ELSE parts[i] \o <<separator>>])

Dim(n) == <<"[", ToString(n), "]">>

\* get_language_class: these heads are their own class.
LanguageClass(head) ==
    IF head \in {"if", "while", "for", "=", "<-", "(", "{"} THEN head ELSE "call"

\* get_class_names, sorted as get_type_of_sexp does.
ClassNames(v) ==
    LET sorted == SortSeq(v.class, LAMBDA c, d : c < d)
    IN  IF v.class # <<>> THEN [i \in 1..Len(sorted) |-> ToString(sorted[i])]
        ELSE IF Len(v.dim) = 2 THEN <<"matrix">> ELSE IF v.dim # <<>> THEN <<"array">>
        ELSE IF v.kind \in FunctionKinds THEN <<"function">>
        ELSE IF v.kind = "symbol" THEN <<"name">>
        ELSE IF v.kind = "language" THEN <<LanguageClass(v.elts[1])>> ELSE <<>>

ClassType(classes) ==
    <<"class<">> \o Joined([i \in 1..Len(classes) |-> <<classes[i]>>], ",") \o <<">">>

\* The names have commas and backticks replaced; backticks delimit them.
Sanitized(name) ==
    <<"backtick">> \o [i \in 1..Len(name) |-> CASE name[i] = "," -> "[PROPAGATR-COMMA]"
                                         [] name[i] = "backtick" -> "[PROPAGATR-BACKTICK]"
                                         [] OTHER         -> name[i]] \o <<"backtick">>

\* The search for an NA that vector_logic does for each kind but raw.
HasNA(v) == v.kind # "raw" /\ \E i \in 1..Len(v.elts) : v.elts[i] \in {"NA", "NAi"}

\* vector_logic, but for its matrices.
VectorType(v) ==
    LET n == Len(v.elts)
        Names == <<"@", "names[">>
                   \o Joined([i \in 1..n |-> Sanitized(v.names[i])], "~") \o <<"]">>
    IN  <<v.kind>> \o Dim(n) \o (IF v.named THEN Names ELSE <<>>)
            \o (IF HasNA(v) THEN <<>> ELSE <<"@", "NA-free">>)

\* list_logic, but for its data frames: a tuple, or a struct if there are names; types are
\* the elements' types.  A list without elements is no struct.
ListType(v, types) ==
    LET n == Len(v.elts)
        Part(i) == IF v.named THEN Sanitized(v.names[i]) \o <<":">> \o types[i] ELSE types[i]
        HasNull == \E i \in 1..n : v.elts[i].kind = "NULL"
    IN  <<IF v.named /\ n > 0 THEN "struct<" ELSE "list<">>
            \o Joined([i \in 1..n |-> Part(i)], "~") \o <<">">> \o Dim(n)
            \o (IF HasNull THEN <<>> ELSE <<"@", "NULL-free">>)

\* deal_with_promise goes through promises to a value, or to an expression if there is none.
RECURSIVE Forced(_)
Forced(v) == IF v.kind = "promise" THEN Forced(v.elts[1]) ELSE v

\* get_type_of_sexp.
RECURSIVE TypeOf(_)
TypeOf(v) ==
    IF ClassNames(v) # <<>> THEN ClassType(ClassNames(v))
    ELSE IF v.kind \in Vectors THEN VectorType(v)
    ELSE IF v.kind = "list" THEN ListType(v, [i \in 1..Len(v.elts) |-> TypeOf(v.elts[i])])
    ELSE IF v.kind = "promise" THEN TypeOf(Forced(v))
    ELSE IF v.kind = "dots" THEN <<"list<any>">> ELSE <<v.kind>>

\* Type::Type(SEXP): the type up to its first @, the rest of it as a tag, the names of the
\* attributes and the classes.
Type(v) ==
    LET type == IF v.kind = "missing" THEN <<"missing">> ELSE TypeOf(v)
        Ats  == {i \in 1..Len(type) : type[i] = "@"}
        at   == CHOOSE i \in Ats : \A j \in Ats : i <= j
    IN  [top     |-> IF Ats = {} THEN type ELSE SubSeq(type, 1, at - 1),
         tags    |-> IF Ats = {} THEN <<>> ELSE <<SubSeq(type, at + 1, Len(type))>>,
         attrs   |-> AttrNames(v),
         classes |-> v.class]
-----------------------------------------------------------------------------
(***************************************************************************)
(* What a type is meant to tell, as a definition to check the code with.   *)
(***************************************************************************)

\* The classes, without their order.
ClassBag(v) == [c \in ToSet(v.class) |-> Cardinality({i \in DOMAIN v.class : v.class[i] = c})]

RECURSIVE Shape(_)
Shape(v) ==
    IF v.class # <<>> THEN [of |-> "classes", classes |-> ClassBag(v)]
    ELSE IF v.dim # <<>> THEN [of |-> "dims", matrix |-> Len(v.dim) = 2]
    ELSE IF v.kind \in FunctionKinds THEN [of |-> "function"]
    ELSE IF v.kind = "language" THEN [of |-> "call", head |-> LanguageClass(v.elts[1])]
    ELSE IF v.kind \in Vectors
    THEN [of |-> v.kind, length |-> Len(v.elts), names |-> <<v.named, v.names>>,
          clean |-> \A i \in DOMAIN v.elts : v.elts[i] = "v"]
    ELSE IF v.kind = "list"
    THEN [of |-> "list", names |-> <<v.named /\ v.elts # <<>>, v.names>>,
          elts |-> [i \in DOMAIN v.elts |-> Shape(v.elts[i])]]
    ELSE IF v.kind = "promise" THEN Shape(v.elts[1])
    ELSE [of |-> v.kind]

\* The same for a Type, which also has the names of the attributes.
FullShape(v) == [shape |-> Shape(v), attrs |-> AttrNames(v), classes |-> ClassBag(v)]
=============================================================================
