----------------------------- MODULE Preprocess ------------------------------
(***************************************************************************)
(* preprocess (frontend/preprocess.py): quoted includes are spliced in     *)
(* first, each file once; then the lines are walked with a stack of the    *)
(* conditionals around them, and the lines of groups that are taken are    *)
(* kept with their macros replaced.                                        *)
(*                                                                         *)
(* A line is [kind, name, arg, op].  "text" stands for a line of the       *)
(* program that mentions the word name; "define" gives the macro name the  *)
(* word arg and "define_func" makes it a macro with parameters; "if" and   *)
(* "elif" ask for the value of the word arg or whether it is defined, by   *)
(* op; arg is the file of "include".  A word is a name or a number.        *)
(*                                                                         *)
(* Left out: line splicing, parameters of macros, operators in tests, the  *)
(* blank lines that stand for directives, unquoted includes.               *)
(***************************************************************************)
EXTENDS Integers, Sequences

LOCAL INSTANCE SequencesExt

CONSTANTS
  Names,      \* identifiers
  Numbers,    \* literals, naturals
  NameOrder,  \* Names, longest first, as they are replaced
  MaxRounds,  \* bound: rounds of replacement, 8 in the code
  Files,      \* file -> its lines
  Sources     \* [lines, kept]: a source and the words the standard keeps

Words == Names \union Numbers
Line == [kind : {"text", "define", "define_func", "undef", "ifdef", "ifndef", "if", "elif",
                 "else", "endif", "include"},
         name : Words, arg : Words \union DOMAIN Files, op : {"value", "defined", "not_defined"}]

ASSUME PreprocessAssumption ==
  /\ Numbers \subseteq Nat
  /\ \A n \in Numbers : n \notin Names
  /\ NameOrder \in Seq(Names)
  /\ MaxRounds \in Nat
  /\ \A f \in DOMAIN Files : Files[f] \in Seq(Line)
  /\ \A s \in Sources : s.lines \in Seq(Line) /\ s.kept \in Seq(Words)

VARIABLES
  source,       \* the source given
  todo,         \* lines not looked through for includes yet
  visited,      \* files spliced in
  joined,       \* lines after includes
  pos,          \* next of them
  cond_stack,   \* of [inc, seen]: in a kept group, a group has been taken
  obj_defines,  \* name -> word
  func_defines, \* names with parameters
  output_lines  \* words of the lines kept

includeVars == <<source, todo, visited, joined>>
macroVars == <<obj_defines, func_defines>>
vars == <<includeVars, pos, cond_stack, macroVars, output_lines>>

Init ==
  /\ source \in Sources
  /\ todo = source.lines
  /\ visited = {}
  /\ joined = <<>>
  /\ pos = 1
  /\ cond_stack = <<>>
  /\ obj_defines = [n \in {} |-> 0]
  /\ func_defines = {}
  /\ output_lines = <<>>

-----------------------------------------------------------------------------
\* Variant: files are spliced in wherever they are named.
ResolveEveryTime ==
  /\ todo # <<>>
  /\ LET l == Head(todo) IN
       IF l.kind = "include" /\ l.arg \in DOMAIN Files
         THEN /\ todo' = Files[l.arg] \o Tail(todo)
              /\ visited' = visited \union {l.arg}
              /\ UNCHANGED joined
         ELSE /\ todo' = Tail(todo)
              /\ joined' = Append(joined, l)
              /\ UNCHANGED visited
  /\ UNCHANGED <<source, pos, cond_stack, macroVars, output_lines>>

\* _resolve_includes: a file comes in its place the first time it is named.
Resolve ==
  /\ todo # <<>>
  /\ LET l == Head(todo) IN
       IF l.kind = "include" /\ l.arg \in DOMAIN Files
         THEN /\ todo' = (IF l.arg \in visited THEN <<>> ELSE Files[l.arg]) \o Tail(todo)
              /\ visited' = visited \union {l.arg}
              /\ UNCHANGED joined
         ELSE /\ todo' = Tail(todo)
              /\ joined' = Append(joined, l)
              /\ UNCHANGED visited
  /\ UNCHANGED <<source, pos, cond_stack, macroVars, output_lines>>

-----------------------------------------------------------------------------
IsActive == \A i \in DOMAIN cond_stack : cond_stack[i].inc
IsDefined(n) == n \in DOMAIN obj_defines \union func_defines

\* Every round replaces each name once, longest first.
Replaced(w) == FoldLeft(LAMBDA x, n : IF x = n /\ n \in DOMAIN obj_defines THEN obj_defines[n] ELSE x,
                        w, NameOrder)
Expanded(w) == LET after[k \in 0..MaxRounds] == IF k = 0 THEN w ELSE Replaced(after[k - 1])
               IN  after[MaxRounds]

\* _eval_if_expr replaces macros before it looks at what is defined; what is
\* left of names counts as 0.
Holds(l) ==
  LET w == Expanded(l.arg)
  IN  CASE l.op = "value" -> w \in Numbers \ {0}
        [] l.op = "defined" -> w \in DOMAIN obj_defines
        [] l.op = "not_defined" -> w \notin DOMAIN obj_defines

At(kinds) == todo = <<>> /\ pos <= Len(joined) /\ joined[pos].kind \in kinds
Goes == pos' = pos + 1 /\ UNCHANGED includeVars

Entered(taking) == Append(cond_stack, [inc |-> taking, seen |-> taking])
Depth == Len(cond_stack)
Top == cond_stack[Depth]
WithTop(inc, seen) == [cond_stack EXCEPT ![Depth] = [inc |-> inc, seen |-> seen]]

\* #ifdef and #ifndef.
Ifdef ==
  /\ At({"ifdef", "ifndef"})
  /\ cond_stack' = Entered(IsDefined(joined[pos].name) = (joined[pos].kind = "ifdef") /\ IsActive)
  /\ Goes
  /\ UNCHANGED <<macroVars, output_lines>>

If ==
  /\ At({"if"})
  /\ cond_stack' = Entered(Holds(joined[pos]) /\ IsActive)
  /\ Goes
  /\ UNCHANGED <<macroVars, output_lines>>

\* _is_active asks for the entry of this conditional, too.
Elif ==
  /\ At({"elif"})
  /\ cond_stack' = IF cond_stack = <<>> THEN <<>>
                   ELSE IF Top.seen THEN WithTop(FALSE, TRUE)
                   ELSE LET taking == Holds(joined[pos]) /\ IsActive
                        IN  WithTop(taking, taking)
  /\ Goes
  /\ UNCHANGED <<macroVars, output_lines>>

\* Variant: the conditionals around this one are not asked.
ElseUnenclosed ==
  /\ At({"else"})
  /\ cond_stack' = IF cond_stack = <<>> THEN <<>> ELSE WithTop(~Top.seen, TRUE)
  /\ Goes
  /\ UNCHANGED <<macroVars, output_lines>>

Else ==
  /\ At({"else"})
  /\ cond_stack' = IF cond_stack = <<>> THEN <<>>
                   ELSE WithTop(~Top.seen /\ \A i \in 1..(Depth - 1) : cond_stack[i].inc, TRUE)
  /\ Goes
  /\ UNCHANGED <<macroVars, output_lines>>

Endif ==
  /\ At({"endif"})
  /\ cond_stack' = IF cond_stack = <<>> THEN <<>> ELSE SubSeq(cond_stack, 1, Depth - 1)
  /\ Goes
  /\ UNCHANGED <<macroVars, output_lines>>

Define ==
  /\ At({"define"}) /\ IsActive
  /\ obj_defines' = [n \in DOMAIN obj_defines \union {joined[pos].name} |->
                       IF n = joined[pos].name THEN joined[pos].arg ELSE obj_defines[n]]
  /\ Goes
  /\ UNCHANGED <<func_defines, cond_stack, output_lines>>

DefineFunc ==
  /\ At({"define_func"}) /\ IsActive
  /\ func_defines' = func_defines \union {joined[pos].name}
  /\ Goes
  /\ UNCHANGED <<obj_defines, cond_stack, output_lines>>

Undef ==
  /\ At({"undef"}) /\ IsActive
  /\ obj_defines' = [n \in DOMAIN obj_defines \ {joined[pos].name} |-> obj_defines[n]]
  /\ func_defines' = func_defines \ {joined[pos].name}
  /\ Goes
  /\ UNCHANGED <<cond_stack, output_lines>>

Text ==
  /\ At({"text"}) /\ IsActive
  /\ output_lines' = Append(output_lines, Expanded(joined[pos].name))
  /\ Goes
  /\ UNCHANGED <<cond_stack, macroVars>>

\* Variant: a line left out takes the next one along.
SkipTwo ==
  /\ \/ At({"define", "define_func", "undef", "text"}) /\ ~IsActive
     \/ At({"include"})
  /\ pos' = pos + 2
  /\ UNCHANGED <<includeVars, cond_stack, macroVars, output_lines>>

\* Anything else in a group that is not taken, and includes not resolved.
Skip ==
  /\ \/ At({"define", "define_func", "undef", "text"}) /\ ~IsActive
     \/ At({"include"})
  /\ Goes
  /\ UNCHANGED <<cond_stack, macroVars, output_lines>>

Next == \/ Resolve
        \/ Ifdef \/ If \/ Elif \/ Else \/ Endif
        \/ Define \/ DefineFunc \/ Undef \/ Text \/ Skip
Spec == Init /\ [][Next]_vars

Finished == todo = <<>> /\ pos > Len(joined)

-----------------------------------------------------------------------------
TypeOK ==
  /\ todo \in Seq(Line)
  /\ visited \subseteq DOMAIN Files
  /\ joined \in Seq(Line)
  /\ pos \in 1..(Len(joined) + 1)
  /\ cond_stack \in Seq([inc : BOOLEAN, seen : BOOLEAN])
  /\ func_defines \subseteq Words

\* A group inside a group that is left out is left out, whatever its own
\* directives say: line 262 asks only the groups around an #else for this, and
\* the entry of an #elif stays on the stack while it is asked.
Enclosed ==
  \A i, j \in DOMAIN cond_stack : i < j /\ cond_stack[j].inc => cond_stack[i].inc

\* The lines a C preprocessor keeps are kept, each with the words its macros
\* stand for at that point, whatever the stack of entries has gone through.
LinesKept == Finished => output_lines = source.kept
=============================================================================
