---------------------------- MODULE LintIncludes ----------------------------
(***************************************************************************)
(* _IncludeState of cpplint.py: which headers a file has included, and in  *)
(* which order their kinds come.                                           *)
(***************************************************************************)
EXTENDS LintNesting

CONSTANT Headers \* what a #include line may name: a function from tokens to
                 \* [cpp, dotH, dotCc, thirdParty, dir, base, first, rank]

\* The sections of a list of includes, in the order they should come.
INITIAL_SECTION == 0
MY_H_SECTION == 1
C_SECTION == 2
CPP_SECTION == 3
OTHER_H_SECTION == 4

IncludeError(ln) == Err(ln, <<"build", "include">>, 4)
OrderError(ln) == Err(ln, <<"build", "include", "_order">>, 4)
AlphaError(ln) == Err(ln, <<"build", "include", "_alpha">>, 4)

\* list: the headers seen and their lines, one set for every #if so far; section
\* and last_header: 0 stands for the empty path, before every other.
InitialIncludes == [list |-> <<{}>>, section |-> INITIAL_SECTION, last_header |-> 0]

FindHeader(s, header) ==
    \E i \in DOMAIN s.list : \E f \in s.list[i] : f.header = header

\* (Mutant: an #if starts no set of its own.)
ResetSharedSection(s, directive) ==
    LET reset == [s EXCEPT !.section = INITIAL_SECTION, !.last_header = 0]
    IN  IF directive \in {"#else", "#elif"}
        THEN [reset EXCEPT !.list = Append(Front(@), {})] ELSE reset

ResetSection(s, directive) ==
    LET reset == [s EXCEPT !.section = INITIAL_SECTION, !.last_header = 0]
    IN  CASE directive \in {"#if", "#ifndef"} -> [reset EXCEPT !.list = Append(@, {})]
          [] directive \in {"#else", "#elif"} ->
                [reset EXCEPT !.list = Append(Front(@), {})]
          [] OTHER -> reset

\* The header this file implements has the base of the file, and stands beside it
\* or in ../public; one with the same first component may be implemented by it.
ClassifyInclude(file, include, is_system) ==
    LET header == Headers[include]
        beside == {file.dir} \cup
                  (IF file.dir = <<>> THEN {} ELSE {Append(Front(file.dir), "public")})
    IN  CASE is_system /\ header.cpp -> "CPP_SYS_HEADER"
          [] is_system /\ ~header.cpp -> "C_SYS_HEADER"
          [] ~is_system /\ header.base = file.base /\ header.dir \in beside ->
                "LIKELY_MY_HEADER"
          [] ~is_system /\ header.base = file.base /\ header.dir \notin beside ->
                "POSSIBLE_MY_HEADER"
          [] ~is_system /\ header.base # file.base /\ header.first = file.first ->
                "POSSIBLE_MY_HEADER"
          [] OTHER -> "OTHER_HEADER"

\* (Mutant: every header moves the section, backwards too.)
CheckLastIncludeOrder(s, header_type) ==
    LET latest == CASE header_type = "C_SYS_HEADER" -> C_SECTION
                    [] header_type = "CPP_SYS_HEADER" -> CPP_SECTION
                    [] header_type = "OTHER_HEADER" -> OTHER_H_SECTION
                    [] OTHER -> MY_H_SECTION
        system == header_type \in {"C_SYS_HEADER", "CPP_SYS_HEADER"}
    IN  [includes |-> [s EXCEPT !.section = latest, !.last_header = 0],
         late |-> system /\ s.section > latest]

\* A header of this kind moves the section on, or comes too late.
CheckNextIncludeOrder(s, header_type) ==
    LET latest == CASE header_type = "C_SYS_HEADER" -> C_SECTION
                    [] header_type = "CPP_SYS_HEADER" -> CPP_SECTION
                    [] header_type = "OTHER_HEADER" -> OTHER_H_SECTION
                    [] OTHER -> MY_H_SECTION
        system == header_type \in {"C_SYS_HEADER", "CPP_SYS_HEADER"}
        section == IF s.section <= latest THEN latest ELSE OTHER_H_SECTION
    IN  IF system /\ s.section > latest
        THEN [includes |-> [s EXCEPT !.last_header = 0], late |-> TRUE]
        ELSE [includes |-> [s EXCEPT !.section = section,
                                     !.last_header = IF section = s.section THEN @ ELSE 0],
              late |-> FALSE]

IsInAlphabeticalOrder(s, elided, ln, rank) ==
    s.last_header > rank => At(TextAt(elided, ln - 1), 1) # "#include"

IsInclude(text) == At(text, 1) = "#include" /\ At(text, 2) \in {"<", Quote}

\* The state after an include that is neither a duplicate nor another package's
\* source nor third-party, and the errors of its place.
AcceptInclude(s, clean, ln, file, include, is_system) ==
    LET listed == [s EXCEPT !.list[Len(s.list)] = @ \cup {[header |-> include, line |-> ln]}]
        next == CheckNextIncludeOrder(listed, ClassifyInclude(file, include, is_system))
        rank == Headers[include].rank
    IN  [includes |-> [next.includes EXCEPT !.last_header = rank],
         errors |-> (IF next.late THEN <<OrderError(ln)>> ELSE <<>>)
                    \o (IF IsInAlphabeticalOrder(next.includes, clean.elided, ln, rank)
                        THEN <<>> ELSE <<AlphaError(ln)>>)]

CheckIncludeLine(s, clean, ln, file) ==
    LET line == clean.lines[ln]
        include == line.text[3]
        header == Headers[include]
        is_system == line.text[2] = "<"
        bare == /\ ~is_system /\ line.indent = 0
                /\ header.dotH /\ header.dir = <<>> /\ ~header.thirdParty
        first == IF bare THEN <<IncludeError(ln)>> ELSE <<>>
        Rest == CASE FindHeader(s, include) ->
                        [includes |-> s, errors |-> <<IncludeError(ln)>>]
                  [] ~FindHeader(s, include) /\ header.dotCc /\ header.dir # file.dir ->
                        [includes |-> s, errors |-> <<IncludeError(ln)>>]
                  [] ~FindHeader(s, include) /\ ~(header.dotCc /\ header.dir # file.dir)
                     /\ header.thirdParty -> [includes |-> s, errors |-> <<>>]
                  [] OTHER -> AcceptInclude(s, clean, ln, file, include, is_system)
    IN  [Rest EXCEPT !.errors = first \o @]

\* The part of CheckLanguage that keeps this state.  CheckIncludeLine matches the line
\* with its strings once more.
CheckLanguageIncludes(s, clean, ln, file) ==
    LET text == clean.elided[ln].text
        directive == Directive(text)
    IN  CASE IsInclude(text) /\ IsInclude(clean.lines[ln].text) ->
                CheckIncludeLine(s, clean, ln, file)
          [] ~IsInclude(text)
             /\ directive \in {"#if", "#ifndef", "#elif", "#else", "#endif"} ->
                [includes |-> ResetSection(s, directive), errors |-> <<>>]
          [] OTHER -> [includes |-> s, errors |-> <<>>]

\* CheckHeaderFileIncluded: a source file whose header exists must name it, or a
\* part of its path; the error stands at the first header kept, or at the top.
CheckHeaderFileIncluded(s, file) ==
    LET headers == {Headers[f.header] : f \in UNION Range(s.list)}
        included == \E h \in headers :
            /\ h.dotH /\ h.base = file.base
            /\ IsSuffix(h.dir, file.dir) \/ IsSuffix(file.dir, h.dir)
        first == SelectInSeq(s.list, LAMBDA kept : kept # {})
        ln == IF first = 0 THEN 1 ELSE Min({f.line : f \in s.list[first]})
    IN  IF file.test \/ ~file.hasHeader \/ included THEN <<>>
        ELSE <<Err(ln, <<"build", "include">>, 5)>>
=============================================================================
