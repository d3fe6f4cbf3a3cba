---------------------------- MODULE MCPPDirectives ----------------------------
(***************************************************************************)
(* The file contents for which TLC runs PPDirectives: every sequence of    *)
(* lines over a small vocabulary.                                          *)
(***************************************************************************)
EXTENDS PPDirectivesProperties, SequencesExt

CONSTANTS
  MaxLines,         \* bound: lines of a main file without includes
  MaxHeaderLines    \* bound: lines of the header

(* A main file alone, every nesting of conditionals.                        *)
MCConditionalLines ==
  {[op |-> o] : o \in {"text", "else", "endif", "ifdef_noname"}}
    \cup {[op |-> "ifndef", macro |-> "M"], [op |-> "elif", cond |-> NotDefined("M")]}

(* An arbitrary header H, included several times by a main file that        *)
(* changes macros in between.                                               *)
MCHeaderLines ==
  {[op |-> o] : o \in {"text", "else", "endif", "once"}}
    \cup {[op |-> "define", macro |-> "M", body |-> Constant(TRUE)],
          [op |-> "ifndef", macro |-> "M"],
          [op |-> "ifdef", macro |-> "M"],
          [op |-> "if", cond |-> NotDefined("M")],
          [op |-> "if", cond |-> Use("G")],
          [op |-> "elif", cond |-> NotDefined("G")],
          [op |-> "include", file |-> "H"]}

MCInclude(f) == [op |-> "include", file |-> f]
MCImport(f) == [op |-> "import", file |-> f]

MCMainTexts ==
  {<< [op |-> "define", macro |-> "G", body |-> NotDefined("M")],
      MCInclude("H"),
      [op |-> "define", macro |-> "G", body |-> Constant(TRUE)],
      [op |-> "define", macro |-> "M", body |-> Constant(FALSE)],
      MCInclude("H") >>,
   << MCInclude("H"), MCImport("H"),
      [op |-> "undef", macro |-> "M"], MCInclude("H") >>}

(* Pairs of a main file and a header.                                       *)
MCTextPairs ==
  (BoundedSeq(MCConditionalLines, MaxLines) \X {<< >>})
    \cup (MCMainTexts \X BoundedSeq(MCHeaderLines, MaxHeaderLines))

MCTexts == {[f \in {"main", "H"} |-> IF f = "main" THEN p[1] ELSE p[2]] : p \in MCTextPairs}
=============================================================================
