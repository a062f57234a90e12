---------------------------- MODULE MCCallTrace ----------------------------
(***************************************************************************)
(* Instances of HashedStore for TLC, with the hashes of CallTrace.         *)
(***************************************************************************)
EXTENDS CallTrace, HashedStore

F(fun, id, dispatch) == [fun |-> fun, pkg |-> "base", id |-> id, dispatch |-> dispatch]

\* Two closures of one name, one of them also dispatched to.
MCFunctions == {F("f", "id1", 0), F("f", "id2", 0), F("f", "id1", 1)}

Names(v, names) == [v EXCEPT !.named = TRUE, !.names = names]
Classes(v, classes) == [v EXCEPT !.class = classes]
Dims(v, dim) == [v EXCEPT !.dim = dim]

Int1 == Value("integer", <<"v">>)
Vector2 ==
    {Value("integer", es) : es \in {<<>>, <<"v">>, <<"NA">>, <<"v", "NA">>, <<"v", "v">>}}
        \cup {Value("complex", <<"NA">>), Value("complex", <<"v", "NA">>),
              Value("character", <<>>), Value("character", <<"v">>)}
Atoms == Vector2 \cup
    {Value("complex", <<"v", "NAi">>), Value("raw", <<"v">>), Value("raw", <<>>),
     Names(Value("integer", <<>>), <<>>),
     Names(Int1, <<<<"a">>>>), Names(Int1, <<<<"a", ",", "b">>>>), Names(Int1, <<<<"@", "backtick">>>>),
     Dims(Value("integer", <<"v", "v">>), <<1, 2>>), Dims(Int1, <<1, 1>>), Dims(Int1, <<1>>),
     Dims(Int1, <<1, 1, 1>>),
     Classes(Int1, <<1>>), Classes(Int1, <<1, 2>>), Classes(Int1, <<2, 1>>), Classes(Int1, <<1, 1>>),
     Classes(Dims(Int1, <<1, 1>>), <<1>>),
     Value("NULL", <<>>), Value("environment", <<>>), Value("symbol", <<>>), Value("missing", <<>>),
     Value("closure", <<>>), Value("builtin", <<>>), Value("dots", <<>>),
     Value("language", <<"if">>), Value("language", <<"f">>)}
Lists ==
    {Value("list", es) : es \in {<<>>, <<Int1>>, <<Value("integer", <<"NA">>)>>,
                                     <<Value("NULL", <<>>)>>, <<Int1, Value("raw", <<>>)>>,
                                     <<Value("list", <<>>)>>, <<Value("list", <<Int1>>), Int1>>,
                                     <<Value("list", <<Int1, Int1>>)>>}}
        \cup {Names(Value("list", <<>>), <<>>), Names(Value("list", <<Int1>>), <<<<"a">>>>),
              Names(Value("list", <<Value("list", <<Int1>>)>>), <<<<"a">>>>)}
Promised == {Value("promise", <<v>>) : v \in {Int1, Value("symbol", <<>>), Value("promise", <<Int1>>)}}
MCValues == Atoms \cup Lists \cup Promised

\* One argument of every kind; two, and other functions, only with a few.
MCCalls ==
    LET f == F("f", "id1", 0)
        Call(fn, args) == [fn |-> fn, args |-> args, ret |-> Int1]
    IN  {Call(f, <<v>>) : v \in MCValues}
            \cup {Call(f, <<v, w>>) : v, w \in {Int1, Value("NULL", <<>>)}}
            \cup {Call(fn, <<Int1>>) : fn \in MCFunctions}

\* The pieces of all strings here, and a hash of strings without accidental collisions in
\* these instances.
Pieces ==
    <<"f", "base", "id1", "id2", "integer", "complex", "character", "raw", "[", "]", "0", "1", "2",
      "@", "NA-free", "NULL-free", "names[", "backtick", "a", "b", "~", ":", "list<", "struct<", ">",
      "class<", ",", "matrix", "array", "function", "name", "call", "if", "NULL", "environment",
      "missing", "list<any>", "pairlist", "[PROPAGATR-COMMA]", "[PROPAGATR-BACKTICK]", "class",
      "dim", "names", "g">>

MCStringHash(string) ==
    FoldLeft(LAMBDA h, piece : (h * 577 + 29 * (CHOOSE i \in DOMAIN Pieces : Pieces[i] = piece)) % Word,
             1, string)

\* Calls of two functions with eight arguments of one type.
MCLongCalls == {[fn |-> fn, args |-> [i \in 1..8 |-> Int1], ret |-> Int1] :
                   fn \in {F("f", "id1", 0), F("g", "id2", 0)}}

MCFunctionHash == [c \in MCCalls |-> HashFunction(c.fn)]
MCFactors == [c \in MCCalls |-> FactorsOf(c)]
MCCallShape == [c \in MCCalls |-> ShapeOf(c)]

MCLongFunctionHash == [c \in MCLongCalls |-> HashFunction(c.fn)]
MCLongFactors == [c \in MCLongCalls |-> FactorsOf(c)]
MCLongCallShape == [c \in MCLongCalls |-> ShapeOf(c)]
=============================================================================
