------------------------------- MODULE Shell -------------------------------
(***************************************************************************)
(* The shell application (src/os/application/shell/src): an event bus and  *)
(* the services that every event is handed to, in the order in which       *)
(* Shell::new registers them: command line, history, lexer, completion,    *)
(* writer, parser, executor.  The contexts the services share and the      *)
(* state of the services are the fields of one record, so that a handler   *)
(* is an operator on it and an event is the composition of the handlers.   *)
(* A character is a one-letter string; a line, the text of a token and a   *)
(* suggestion are sequences of characters, so that every position is the   *)
(* byte position the code uses (all characters are one byte long).         *)
(***************************************************************************)
EXTENDS Integers, Sequences, FiniteSets, SequencesExt, TLC

CONSTANTS Keys,        \* the keys pressed: characters and names of raw keys
          MaxLine,     \* MAX_LINE_LEN
          MaxHistory,  \* MAX_HISTORY_LEN; 0: started with --no-history
          MaxAlias,    \* MAX_ALIAS_LEN
          Aliases,     \* INITIAL_ALIASES, pairs of texts
          Registry,    \* APPLICATION_REGISTRY; <<>>: --no-auto-completion
          BuiltIns,    \* the text of a command |-> the built-in it runs
          Dirs,        \* the directories at the start
          Apps,        \* the texts that start_application finds
          MaxSubmits   \* bound: lines submitted

VARIABLE sh

None == -1
Here == -2

ShellAssumption == /\ MaxLine \in Nat \ {0} /\ MaxHistory \in Nat /\ MaxAlias >= Len(Aliases) /\ <<>> \in Dirs
                   /\ \A i \in DOMAIN Registry : {"name", "single", "keys"} = DOMAIN Registry[i]

\* ------------------------------------------------------------------ tokens

Token == [cmd : Int, seg : BOOLEAN, file : BOOLEAN, quote : {"", "'", "\""},
          eol : BOOLEAN, pos : Int, line : Nat, kind : STRING, text : Seq(STRING),
          st : {"valid", "incomplete", "error"} \X STRING \X STRING]

Valid == <<"valid", "", "">>

\* The token before the first one: create_first is create_next after it.
NoToken == [cmd |-> None, seg |-> FALSE, file |-> FALSE, quote |-> "", eol |-> FALSE,
            pos |-> -1, line |-> 0, kind |-> "None", text |-> <<>>, st |-> Valid]

\* A definition: what the token sets in the context it inherits, and the rules
\* that make it an error after the previous token.
Def(set, rules) == [set |-> set, rules |-> rules]

COMMAND_TOKEN_DEFINITION == Def([cmd |-> Here, seg |-> FALSE], <<"cmd", "file", "eol">>)
ARGUMENT_TOKEN_DEFINITION == Def(<<>>, <<"nocmd", "seg", "file", "eol">>)
FILE_TOKEN_DEFINITION == Def([file |-> FALSE], <<"nofile", "seg", "eol">>)
BLANK_TOKEN_DEFINITION == Def(<<>>, <<>>)
QUOTE_START_TOKEN_DEFINITION(ch) == Def([quote |-> ch], <<"quote">>)
QUOTE_END_TOKEN_DEFINITION == Def([quote |-> ""], <<"noquote">>)
PIPE_TOKEN_DEFINITION == Def([cmd |-> None, seg |-> TRUE], <<"nocmd", "file", "eol">>)
REDIRECT_IN_FILE_TOKEN_DEFINITION == Def([file |-> TRUE], <<"nocmd", "file", "eol">>)
REDIRECT_OUT_TRUNCATE_TOKEN_DEFINITION == Def([file |-> TRUE], <<"nocmd", "file", "eol">>)
REDIRECT_OUT_APPEND_TOKEN_DEFINITION == Def([file |-> TRUE], <<"nocmd", "file", "eol">>)
LOGICAL_AND_TOKEN_DEFINITION == Def([cmd |-> None, seg |-> TRUE], <<"nocmd", "file", "eol">>)
LOGICAL_OR_TOKEN_DEFINITION == Def([cmd |-> None, seg |-> TRUE], <<"nocmd", "file", "eol">>)
SEPARATOR_TOKEN_DEFINITION == Def([cmd |-> None], <<"file", "seg">>)
BACKGROUND_TOKEN_DEFINITION == Def([cmd |-> None, eol |-> TRUE], <<"nocmd", "file", "seg", "eol">>)

get_definition(kind, text) ==
  CASE kind = "Command" -> COMMAND_TOKEN_DEFINITION
    [] kind = "Argument" -> ARGUMENT_TOKEN_DEFINITION
    [] kind = "File" -> FILE_TOKEN_DEFINITION
    [] kind = "Blank" -> BLANK_TOKEN_DEFINITION
    [] kind = "QuoteStart" -> QUOTE_START_TOKEN_DEFINITION(text[1])
    [] kind = "QuoteEnd" -> QUOTE_END_TOKEN_DEFINITION
    [] kind = "Pipe" -> PIPE_TOKEN_DEFINITION
    [] kind = "RedirectInFile" -> REDIRECT_IN_FILE_TOKEN_DEFINITION
    [] kind = "RedirectOutTruncate" -> REDIRECT_OUT_TRUNCATE_TOKEN_DEFINITION
    [] kind = "RedirectOutAppend" -> REDIRECT_OUT_APPEND_TOKEN_DEFINITION
    [] kind = "And" -> LOGICAL_AND_TOKEN_DEFINITION
    [] kind = "Or" -> LOGICAL_OR_TOKEN_DEFINITION
    [] kind = "Separator" -> SEPARATOR_TOKEN_DEFINITION
    [] kind = "Background" -> BACKGROUND_TOKEN_DEFINITION

\* TokenRule.condition: whether the rule makes a token after prev an error.
Broken(prev, rule) ==
  CASE rule = "cmd" -> prev.cmd # None
    [] rule = "nocmd" -> prev.cmd = None
    [] rule = "seg" -> prev.seg
    [] rule = "file" -> prev.file
    [] rule = "nofile" -> ~prev.file
    [] rule = "quote" -> prev.quote # ""
    [] rule = "noquote" -> prev.quote = ""
    [] rule = "eol" -> prev.eol

get_incomplete_status(t) ==
  CASE t.quote # "" -> <<"incomplete", "quote", "">>
    [] t.quote = "" /\ t.seg -> <<"incomplete", "segment", "">>
    [] t.quote = "" /\ ~t.seg /\ t.file -> <<"incomplete", "file", "">>
    [] OTHER -> Valid

Placed(t) == IF t.cmd = Here THEN [t EXCEPT !.cmd = t.pos] ELSE t

Judged(t, prev, broken) ==
  [t EXCEPT !.st = IF prev.st[1] = "error" THEN prev.st
                   ELSE IF broken # <<>> THEN <<"error", t.kind, broken[1]>>
                   ELSE get_incomplete_status(t)]

\* TokenFactory::create_next, and create_first when prev is NoToken.
create_next(prev, kind, text) ==
  LET def == get_definition(kind, text)
  IN  Judged(Placed([pos |-> prev.pos + 1, line |-> prev.line + Len(prev.text),
                     kind |-> kind, text |-> text] @@ def.set @@ prev),
             prev, SelectSeq(def.rules, LAMBDA r : Broken(prev, r)))

is_ambiguous(t) == t.kind \in {"Command", "Argument", "File"}
is_content_dynamic(t) == is_ambiguous(t) \/ t.kind = "Blank"

LastToken(s) == IF s.toks = <<>> THEN NoToken ELSE Last(s.toks)

total_len(toks) == IF toks = <<>> THEN 0 ELSE Last(toks).line + Len(Last(toks).text)

\* TokensContext::push_token; the status counts as changed when it differs from
\* the one before (the first token's from Valid, which is NoToken's).
Pushed(s, t) == [s EXCEPT !.toks = Append(@, t), !.sdirty = @ \/ LastToken(s).st # t.st]
push_token(s, kind, text) == Pushed(s, create_next(LastToken(s), kind, text))

pop_token(s) ==
  LET t == [s EXCEPT !.toks = Front(@)]
  IN  [t EXCEPT !.sdirty = @ \/ LastToken(s).st # LastToken(t).st]

mark_dirty_at(s, i) == [s EXCEPT !.dirty = IF i < @ THEN i ELSE @]

\* replace_last_token and the mark_dirty_at that follows each of its calls.
MarkLast(s) == mark_dirty_at(s, LastToken(s).line)
Replace(s, kind, text) == MarkLast(push_token([s EXCEPT !.toks = Front(@)], kind, text))

push_to_last_token(s, ch) == [s EXCEPT !.toks[Len(s.toks)].text = Append(@, ch)]

\* ------------------------------------------------------------------- lexer

add_ambiguous(s, ch) ==
  LET last == LastToken(s) IN
  IF is_ambiguous(last) THEN push_to_last_token(s, ch)
  ELSE push_token(s, CASE last.file -> "File"
                       [] ~last.file /\ last.cmd # None -> "Argument"
                       [] OTHER -> "Command", <<ch>>)

\* add_background_or_logical_and, add_pipe_or_logical_or and
\* add_redirect_out_append_or_truncate: a second one joins the first.
add_or_join(s, ch, one, two) ==
  IF LastToken(s).kind = one THEN Replace(s, two, <<ch, ch>>) ELSE push_token(s, one, <<ch>>)

add_blank(s, ch) ==
  IF LastToken(s).kind = "Blank" THEN push_to_last_token(s, ch) ELSE push_token(s, "Blank", <<ch>>)

add_quote(s, ch) ==
  IF LastToken(s).quote = ch THEN push_token(s, "QuoteEnd", <<ch>>)
  ELSE push_token(s, "QuoteStart", <<ch>>)

LexerAdd(s, ch) ==
  IF LastToken(s).quote \notin {"", ch} THEN add_ambiguous(s, ch)
  ELSE CASE ch = ";" -> push_token(s, "Separator", <<ch>>)
         [] ch = "&" -> add_or_join(s, ch, "Background", "And")
         [] ch = "|" -> add_or_join(s, ch, "Pipe", "Or")
         [] ch = ">" -> add_or_join(s, ch, "RedirectOutTruncate", "RedirectOutAppend")
         [] ch = "<" -> push_token(s, "RedirectInFile", <<ch>>)
         [] ch \in {"'", "\""} -> add_quote(s, ch)
         [] ch = " " -> add_blank(s, ch)
         [] OTHER -> add_ambiguous(s, ch)

\* Mutant: a token of two characters is popped whole.
LexerRemoveWhole(s) ==
  IF is_content_dynamic(LastToken(s)) /\ Len(LastToken(s).text) > 1
  THEN [s EXCEPT !.toks[Len(s.toks)].text = Front(@)]
  ELSE pop_token(s)

\* Removes the last character of the tokens.
LexerRemove(s) ==
  LET last == LastToken(s) IN
  CASE last.kind = "And" -> Replace(s, "Background", <<"&">>)
    [] last.kind = "Or" -> Replace(s, "Pipe", <<"|">>)
    [] last.kind = "RedirectOutAppend" -> Replace(s, "RedirectOutTruncate", <<">">>)
    [] last.kind \notin {"And", "Or", "RedirectOutAppend"} ->
         IF is_content_dynamic(last) /\ Len(last.text) > 1
         THEN [s EXCEPT !.toks[Len(s.toks)].text = Front(@)]
         ELSE pop_token(s)

Trigger(s, e) == [s EXCEPT !.bus = Append(@, <<e>>)]

detokenize_to(s, index) ==
  FoldLeft(LAMBDA t, i : LexerRemove(t), s, [i \in 1..(total_len(s.toks) - index) |-> i])

tokenize_from(s, index) == FoldLeft(LexerAdd, s, SubSeq(s.line, index + 1, Len(s.line)))

TriggerIf(s, changed, e) == IF changed THEN Trigger(s, e) ELSE s
tokenize_from_dirty(s) ==
  TriggerIf(tokenize_from(detokenize_to(s, s.dirty), s.dirty),
            total_len(s.toks) > s.dirty \/ s.dirty < Len(s.line), "TokensWritten")

AliasOf(s, text) == LET hit == SelectSeq(s.alias, LAMBDA e : e[1] = text)
                    IN  IF hit = <<>> THEN text ELSE hit[1][2]

retokenize_with_alias(s) ==
  LET texts == [i \in DOMAIN s.toks |-> IF is_ambiguous(s.toks[i]) /\ s.toks[i].quote = ""
                                        THEN AliasOf(s, s.toks[i].text) ELSE s.toks[i].text]
  IN  FoldLeft(LexerAdd, [s EXCEPT !.toks = <<>>, !.sdirty = FALSE], FlattenSeq(texts))

LexerService(s, e) ==
  CASE e[1] = "PrepareNewLine" -> [s EXCEPT !.toks = <<>>, !.sdirty = FALSE]
    [] e[1] = "Submit" -> retokenize_with_alias(s)
    [] e[1] \in {"LineWritten", "HistoryRestored"} -> tokenize_from_dirty(s)
    [] OTHER -> s
\* ------------------------------------------------- command line and history

InsertChar(s, ch) == [mark_dirty_at(s, s.cur) EXCEPT !.line = InsertAt(@, s.cur + 1, ch), !.cur = @ + 1]

RemoveChar(s, i) == mark_dirty_at([s EXCEPT !.line = RemoveAt(@, i + 1)], i)

is_cursor_at_end(s) == s.cur >= Len(s.line)

RawKeys == {"Left", "Right", "Home", "End", "Up", "Down", "Other"}

CommandLineService(s, e) ==
  IF e[1] = "PrepareNewLine" THEN [s EXCEPT !.line = <<>>, !.dirty = 0, !.cur = 0]
  ELSE IF e[1] # "KeyPressed" THEN s
  ELSE LET k == e[2] IN
       CASE k = "Left" /\ s.cur > 0 -> Trigger([s EXCEPT !.cur = @ - 1], "CursorMoved")
         [] k = "Right" /\ ~is_cursor_at_end(s) -> Trigger([s EXCEPT !.cur = @ + 1], "CursorMoved")
         [] k = "Home" -> [s EXCEPT !.cur = 0]
         [] k = "End" -> [s EXCEPT !.cur = Len(s.line)]
         [] k = "Enter" -> Trigger(s, "Submit")
         [] k = "Back" /\ s.cur > 0 ->
              Trigger([RemoveChar(s, s.cur - 1) EXCEPT !.cur = @ - 1], "LineWritten")
         [] k = "Del" /\ ~is_cursor_at_end(s) -> Trigger(RemoveChar(s, s.cur), "LineWritten")
         [] k \notin RawKeys \cup {"Tab", "Esc", "Enter", "Back", "Del"} /\ Len(s.line) < MaxLine ->
              Trigger(InsertChar(s, k), "LineWritten")
         [] OTHER -> s

SetLine(s, text) ==
  Trigger([s EXCEPT !.line = text, !.dirty = 0, !.cur = Len(text)], "HistoryRestored")

HistoryService(s, e) ==
  CASE MaxHistory = 0 -> s
    [] MaxHistory > 0 /\ e = <<"KeyPressed", "Up">> /\ s.hpos < Len(s.hist) - 1 ->
         SetLine([s EXCEPT !.hpos = @ + 1], s.hist[s.hpos + 2])
    [] MaxHistory > 0 /\ e = <<"KeyPressed", "Down">> /\ s.hpos = 0 ->
         SetLine([s EXCEPT !.hpos = -1], <<>>)
    [] MaxHistory > 0 /\ e = <<"KeyPressed", "Down">> /\ s.hpos > 0 ->
         SetLine([s EXCEPT !.hpos = @ - 1], s.hist[s.hpos])
    [] MaxHistory > 0 /\ e[1] = "Submit" ->
         [s EXCEPT !.hpos = -1,
                   !.hist = <<s.line>> \o (IF Len(@) >= MaxHistory THEN Front(@) ELSE @)]
    [] MaxHistory > 0 /\ e[1] = "LineWritten" -> [s EXCEPT !.hpos = -1]
    [] OTHER -> s

\* -------------------------------------------------------------- completion

Panics(s) == [s EXCEPT !.err = "panic"]

\* SuggestionContext::reset and AutoCompletionService::clear_suggestion.
clear_suggestion(s) ==
  [s EXCEPT !.index = 0, !.now = FALSE, !.sug = <<>>, !.sugDirty = TRUE, !.focus = FALSE]

find_last_argument_in_segment(s) ==
  LET before == SelectLastInSeq(s.toks, LAMBDA t : t.cmd = None)
      arg == SelectLastInSeq(s.toks, LAMBDA t : t.kind = "Argument")
  IN  IF arg > before THEN s.toks[arg].text ELSE <<>>

revalidate_application(s) ==
  LET cmd == s.toks[LastToken(s).cmd + 1].text
      found == SelectInSeq(Registry, LAMBDA app : app.name = cmd)
  IN  IF LastToken(s).cmd = None THEN [s EXCEPT !.now = FALSE] ELSE [s EXCEPT !.app = found]

\* The cached index is looked up in the key list of the current application
\* before it is searched anew.
revalidate_key_value_idx(s) ==
  LET keys == Registry[s.app].keys
      arg == find_last_argument_in_segment(s)
  IN  CASE s.app = 0 \/ arg = <<>> -> [s EXCEPT !.kv = 0]
        [] s.app # 0 /\ arg # <<>> /\ s.kv > Len(Registry[s.app].keys) -> Panics(s)
        [] OTHER -> [s EXCEPT !.kv = SelectInSeq(keys, LAMBDA p : p[1] = arg)]

revalidate(s) == revalidate_key_value_idx(revalidate_application(s))

Shown(s, target, text, i) ==
  [s EXCEPT !.index = i, !.now = TRUE, !.sug = SubSeq(text, Len(target) + 1, Len(text)), !.sugDirty = TRUE]

\* cycle: the next entry of the list, from current_index on, that begins with
\* the target; cycle_suggestion shows the part after it.
CycleList(s, target, list) ==
  LET order == [j \in DOMAIN list |-> ((s.index + j - 1) % Len(list)) + 1]
      hit == SelectInSeq(order, LAMBDA i : IsPrefix(target, list[i]))
  IN  IF hit = 0 THEN [s EXCEPT !.now = FALSE] ELSE Shown(s, target, list[order[hit]], order[hit])

Names(list) == [i \in DOMAIN list |-> list[i].name]
cycle_command(s, target) == CycleList(s, target, Names(Registry))
cycle_argument(s, target) ==
  IF s.app = 0 THEN [s EXCEPT !.now = FALSE]
  ELSE LET app == Registry[s.app] IN
       CycleList(s, target, IF s.kv # 0 THEN app.keys[s.kv][2]
                            ELSE app.single \o [i \in DOMAIN app.keys |-> app.keys[i][1]])

cycle_suggestion(s) ==
  LET t == LastToken(s) IN
  CASE t.eol -> [s EXCEPT !.now = FALSE]
    [] ~t.eol /\ t.file -> Shown(s, <<>>, <<"P">>, s.index)
    [] ~t.eol /\ ~t.file /\ t.kind = "Command" -> cycle_command(s, t.text)
    [] ~t.eol /\ ~t.file /\ t.kind = "Argument" -> cycle_argument(s, t.text)
    [] ~t.eol /\ ~t.file /\ t.kind \in {"Blank", "None"} ->
         IF t.cmd # None THEN cycle_argument(s, <<>>) ELSE cycle_command(s, <<>>)
    [] OTHER -> [s EXCEPT !.now = FALSE]

Unless(s, next) == IF s.err # "" THEN s ELSE next

Focused(s) == IF s.now THEN [s EXCEPT !.focus = TRUE, !.sugDirty = TRUE] ELSE s
focus_suggestion(s) == Focused(IF s.now THEN s ELSE cycle_suggestion(s))

\* Space with focus: the suggestion goes before the character just written.
adopt(s) ==
  LET t == mark_dirty_at(s, Len(s.line) - 1) IN
  IF s.sug = <<>> \/ ~s.focus THEN s
  ELSE clear_suggestion(Trigger([t EXCEPT !.line = Front(@) \o s.sug \o <<Last(s.line)>>,
                                          !.cur = @ + Len(s.sug)], "LineWritten"))

\* What Tab, a blank and a changed line do once application and key are looked up.
Suggest(s, e) ==
  CASE s.err # "" -> s
    [] s.err = "" /\ e = <<"KeyPressed", " ">> -> adopt(s)
    [] s.err = "" /\ e[1] = "TokensWritten" -> cycle_suggestion(clear_suggestion(s))
    [] OTHER -> IF s.focus THEN cycle_suggestion(s) ELSE focus_suggestion(s)

AutoCompletionService(s, e) ==
  LET atEnd == is_cursor_at_end(s)
  IN  CASE Registry = <<>> -> s
        [] Registry # <<>> /\ atEnd /\ e \in {<<"KeyPressed", "Tab">>, <<"KeyPressed", " ">>, <<"TokensWritten">>} ->
             Suggest(revalidate(s), e)
        [] Registry # <<>> /\ e[1] = "KeyPressed" /\ atEnd /\ e[2] \in {"Esc", "Back", "Del"} ->
             [s EXCEPT !.focus = FALSE, !.sugDirty = TRUE]
        [] Registry # <<>> /\ e[1] \in {"Submit", "CursorMoved"} -> clear_suggestion(s)
        [] Registry # <<>> /\ e[1] \in {"PrepareNewLine", "HistoryRestored"} ->
             clear_suggestion([s EXCEPT !.app = 0, !.kv = 0])
        [] OTHER -> s

\* ------------------------------------------------------- working directory

\* str::split at '/'.
Parts(path) ==
  FoldLeft(LAMBDA parts, ch : IF ch = "/" THEN Append(parts, <<>>)
                              ELSE [parts EXCEPT ![Len(parts)] = Append(@, ch)], << <<>> >>, path)

components_to_string(components) ==
  IF components = <<>> THEN <<"/">>
  ELSE FlattenSeq([i \in DOMAIN components |-> <<"/">> \o components[i]])

resolve(components, path) ==
  components_to_string(
    FoldLeft(LAMBDA c, part : CASE part \in {<<>>, <<".">>} -> c
                                [] part = <<".", ".">> -> IF c = <<>> THEN c ELSE Front(c)
                                [] OTHER -> Append(c, part),
             IF path # <<>> /\ path[1] = "/" THEN <<>> ELSE components, Parts(path)))

Components(path) == SelectSeq(Parts(path), LAMBDA part : part # <<>>)

\* ------------------------------------------------------------------ writer

prompt(s) == components_to_string(s.wd) \o <<">", " ">>

Coloured(text, colour) == [i \in DOMAIN text |-> <<text[i], colour>>]

\* Printing at the cursor; the row is wide enough for the line.
PrintCells(s, cells) ==
  LET end == s.at + Len(cells) IN
  [s EXCEPT !.at = end,
            !.row = [i \in 1..(IF end > Len(@) THEN end ELSE Len(@)) |->
                       IF i \in (s.at + 1)..end THEN cells[i - s.at]
                       ELSE IF i <= Len(s.row) THEN s.row[i] ELSE <<" ", "">>]]

prompt_color(status) == status[1]

token_color(t) == IF t.quote # "" /\ t.kind \notin {"QuoteStart", "QuoteEnd"} THEN "in_quote" ELSE t.kind

total_line_len(s) == Len(prompt(s)) + Len(s.line) + Len(s.sug)

\* The prompt is repainted in the colour of the line's status.
dirty_status_prompt(s) ==
  IF ~s.sdirty THEN s
  ELSE [PrintCells([s EXCEPT !.at = 0], Coloured(prompt(s), prompt_color(LastToken(s).st)))
          EXCEPT !.at = s.at]

\* cursor_to_dirty_line and clear_right_of_cursor.
ClearFromDirty(s) == LET at == Len(prompt(s)) + s.dirty
                     IN  [s EXCEPT !.at = at, !.row = SubSeq(@, 1, at)]

as_str_at_line_pos(t, pos) == IF pos < t.line THEN t.text ELSE SubSeq(t.text, pos - t.line + 1, Len(t.text))

slice_at_line_index(s, i) ==
  SubSeq(s.toks, SelectLastInSeq(s.toks, LAMBDA t : t.line + Len(t.text) <= i) + 1, Len(s.toks))

dirty_tokens(s) ==
  FoldLeft(LAMBDA u, t : PrintCells(u, Coloured(as_str_at_line_pos(t, s.dirty), token_color(t))),
           s, slice_at_line_index(s, s.dirty))

dirty_suggestion(s) == IF s.sugDirty THEN PrintCells(s, Coloured(s.sug, "suggestion")) ELSE s

restore_cursor_position(s) ==
  [s EXCEPT !.at = IF s.focus THEN total_line_len(s) ELSE s.cur + Len(prompt(s))]

write_at_dirty(s) ==
  [restore_cursor_position(dirty_suggestion(dirty_tokens(ClearFromDirty(dirty_status_prompt(s)))))
     EXCEPT !.dirty = Len(s.line), !.sdirty = FALSE, !.sugDirty = FALSE]

\* What a submitted line and what is printed after it leaves: an empty row.
WriterService(s, e) ==
  CASE e[1] = "PrepareNewLine" ->
         PrintCells([s EXCEPT !.at = 0], Coloured(prompt(s), prompt_color(Valid)))
    [] e[1] = "Submit" -> [s EXCEPT !.at = total_line_len(s), !.row = <<>>]
    [] e[1] = "ProcessCompleted" -> write_at_dirty(s)
    [] e[1] = "ProcessFailed" -> Trigger([s EXCEPT !.row = <<>>], "PrepareNewLine")
    [] OTHER -> s

\* ------------------------------------------------------------------ parser

Std == <<"std">>

NoExecutable == [cmd |-> <<>>, args |-> <<>>, in |-> Std, out |-> Std, bg |-> FALSE, req |-> <<>>]

\* The builder is built when its command is known, and a new one begun.
Build(p) == IF p.builder.cmd = <<>> THEN p
            ELSE [p EXCEPT !.exes = Append(@, p.builder), !.builder = NoExecutable]

\* One token of parse: the executables, the builder (its id is Len(exes)) and
\* current_io_type.
ParseToken(wd, p, t) ==
  LET q == IF t.cmd = None THEN Build(p) ELSE p
      skipped == t.cmd = None /\ p.builder.cmd = <<>>
      path == resolve(wd, t.text)
      last == Len(q.exes)
  IN  IF skipped \/ p.err # "" THEN p
      ELSE CASE t.kind = "Command" -> [q EXCEPT !.builder.cmd = t.text]
             [] t.kind = "Argument" -> [q EXCEPT !.builder.args = Append(@, t.text)]
             [] t.kind = "Background" ->
                  [q EXCEPT !.exes = [i \in DOMAIN @ |-> [@[i] EXCEPT !.bg = TRUE]], !.builder.bg = TRUE]
             [] t.kind \in {"And", "Or", "Pipe"} /\ last = 0 -> [q EXCEPT !.err = "parse"]
             [] t.kind = "And" /\ last > 0 -> [q EXCEPT !.builder.req = <<last - 1, TRUE>>]
             [] t.kind = "Or" /\ last > 0 -> [q EXCEPT !.builder.req = <<last - 1, FALSE>>]
             [] t.kind = "Pipe" /\ last > 0 -> [q EXCEPT !.exes[last].out = <<"job", last>>,
                                                        !.builder.in = <<"job", last - 1>>]
             [] t.kind = "File" /\ q.io = "RedirectInFile" ->
                  [q EXCEPT !.builder.in = <<"truncate", path>>, !.io = ""]
             [] t.kind = "File" /\ q.io = "RedirectOutAppend" ->
                  [q EXCEPT !.builder.out = <<"append", path>>, !.io = ""]
             [] t.kind = "File" /\ q.io = "RedirectOutTruncate" ->
                  [q EXCEPT !.builder.out = <<"truncate", path>>, !.io = ""]
             [] t.kind = "File" /\ q.io = "" -> [q EXCEPT !.err = "parse"]
             [] t.kind \in {"RedirectInFile", "RedirectOutAppend", "RedirectOutTruncate"} ->
                  [q EXCEPT !.io = t.kind]
             [] OTHER -> q

Parsed(s, p) ==
  IF LastToken(s).st # Valid THEN [s EXCEPT !.err = "parse"]
  ELSE IF p.err # "" THEN [s EXCEPT !.err = p.err, !.exes = p.exes]
  ELSE [s EXCEPT !.exes = Build(p).exes]

parse(s) ==
  Parsed(s, FoldLeft(LAMBDA q, t : ParseToken(s.wd, q, t),
                     [exes |-> s.exes, builder |-> NoExecutable, io |-> "", err |-> ""], s.toks))

ParserService(s, e) ==
  CASE e[1] = "PrepareNewLine" -> [s EXCEPT !.exes = <<>>]
    [] e[1] = "Submit" -> parse(s)
    [] OTHER -> s
\* ---------------------------------------------------------------- executor

\* args.join(" ").
JoinArgs(args) == FoldLeft(LAMBDA raw, arg : raw \o <<" ">> \o arg, args[1], Tail(args))

strip_quotes(v) == IF Len(v) >= 2 /\ v[1] = Last(v) /\ v[1] \in {"'", "\""}
                   THEN SubSeq(v, 2, Len(v) - 1) ELSE v

Answer(s, code) == [s EXCEPT !.code = code]

\* AliasContext::set.
SetAlias(s, key, value) ==
  LET at == SelectInSeq(s.alias, LAMBDA e : e[1] = key) IN
  CASE at # 0 -> Answer([s EXCEPT !.alias[at] = <<key, value>>], 0)
    [] at = 0 /\ Len(s.alias) >= MaxAlias -> Answer(s, 1)
    [] OTHER -> Answer([s EXCEPT !.alias = Append(@, <<key, value>>)], 0)

AliasBuiltIn(s, args) ==
  LET raw == JoinArgs(args)
      eq == SelectInSeq(raw, LAMBDA ch : ch = "=")
  IN  IF args = <<>> THEN Answer(s, 0)
      ELSE IF eq = 0 THEN Answer(s, 1)
      ELSE SetAlias(s, SubSeq(raw, 1, eq - 1), strip_quotes(SubSeq(raw, eq + 1, Len(raw))))

\* AliasContext::remove is a swap_remove.
UnaliasBuiltIn(s, args) ==
  LET at == SelectInSeq(s.alias, LAMBDA e : e[1] = args[1]) IN
  IF Len(args) # 1 THEN Answer(s, 1)
  ELSE IF at = 0 THEN Answer(s, 1)
  ELSE Answer([s EXCEPT !.alias = Front([@ EXCEPT ![at] = Last(@)])], 0)

CdBuiltIn(s, args) ==
  LET to == Components(resolve(s.wd, args[1])) IN
  IF args = <<>> THEN Answer(s, 1)
  ELSE IF to \notin s.dirs THEN Answer(s, 1)
  ELSE Answer([s EXCEPT !.wd = to], 0)

\* mkdir of the kernel, as the built-in uses it: the parent must exist.
MkdirBuiltIn(s, args) ==
  LET new == Components(resolve(s.wd, args[1])) IN
  IF args = <<>> THEN Answer(s, 1)
  ELSE IF new \in s.dirs \/ new = <<>> THEN Answer(s, 1)
  ELSE IF Front(new) \notin s.dirs THEN Answer(s, 1)
  ELSE Answer([s EXCEPT !.dirs = @ \cup {new}], 0)

LsBuiltIn(s, args) ==
  LET path == IF args = <<>> THEN <<>> ELSE args[1]
  IN  Answer(s, IF Components(resolve(s.wd, path)) \in s.dirs THEN 0 ELSE 1)

PwdBuiltIn(s, args) == Answer(s, IF args = <<>> THEN 0 ELSE 1)

ExitBuiltIn(s) == [s EXCEPT !.err = "exit"]

\* A built-in, an application that is started and joined, or nothing found.
execute_executable(s, x) ==
  LET b == IF x.cmd \in DOMAIN BuiltIns THEN BuiltIns[x.cmd] ELSE "none" IN
  CASE b = "alias" -> AliasBuiltIn(s, x.args)
    [] b = "unalias" -> UnaliasBuiltIn(s, x.args)
    [] b = "cd" -> CdBuiltIn(s, x.args)
    [] b = "mkdir" -> MkdirBuiltIn(s, x.args)
    [] b = "ls" -> LsBuiltIn(s, x.args)
    [] b = "pwd" -> PwdBuiltIn(s, x.args)
    [] b = "exit" -> ExitBuiltIn(s)
    [] b \in {"echo", "debug_success"} -> Answer(s, 0)
    [] b \in {"debug_error", "window_manager"} -> Answer(s, 1)
    [] b = "none" -> Answer(s, IF x.cmd \in Apps THEN 0 ELSE 1)

\* Mutant: the code of the command that just ran is looked up, not that of the
\* one the condition names.
StopOnOwnIndex(x, codes) ==
  /\ x.req # <<>>
  /\ x.req[1] + 2 \in DOMAIN codes
  /\ \/ x.req[2] /\ codes[x.req[1] + 2] > 0
     \/ ~x.req[2] /\ codes[x.req[1] + 2] = 0

should_stop_on_dependency(x, codes) ==
  /\ x.req # <<>>
  /\ x.req[1] + 1 \in DOMAIN codes
  /\ \/ x.req[2] /\ codes[x.req[1] + 1] > 0
     \/ ~x.req[2] /\ codes[x.req[1] + 1] = 0

\* The loop over the executables: ran holds the exit codes so far, and stop
\* that a condition ended it.
Recorded(s) == Unless(s, [s EXCEPT !.ran = Append(@, s.code)])
ExecuteNext(s, x) ==
  IF s.stop \/ s.err # "" THEN s
  ELSE IF should_stop_on_dependency(x, s.ran) THEN [s EXCEPT !.stop = TRUE]
  ELSE Recorded(execute_executable(s, x))

Unsupported(x) == x.in # Std \/ x.out # Std \/ x.bg

NewLineAfter(s) == Unless(s, Trigger(s, "PrepareNewLine"))
execute(s) ==
  IF \E i \in DOMAIN s.exes : Unsupported(s.exes[i])
  THEN [s EXCEPT !.err = "unsupported"]
  ELSE NewLineAfter(FoldLeft(ExecuteNext, [s EXCEPT !.ran = <<>>, !.stop = FALSE], s.exes))

\* The results of a line are forgotten with it.
ExecutorService(s, e) ==
  CASE e[1] = "Submit" -> execute(s)
    [] e[1] = "PrepareNewLine" -> [s EXCEPT !.ran = <<>>, !.stop = FALSE, !.code = 0]
    [] OTHER -> s

\* ------------------------------------------------------------------- shell

\* handle_event: the services in the order of their registration, up to the
\* first that returns an error.
Completes(s, e) == AutoCompletionService(LexerService(HistoryService(CommandLineService(s, e), e), e), e)
Writes(s, e) == Unless(s, WriterService(s, e))
Parses(s, e) == Unless(s, ParserService(s, e))
Executes(s, e) == Unless(s, ExecutorService(s, e))
handle_event(s, e) == Executes(Parses(Writes(Completes(s, e), e), e), e)

Init ==
  sh = [line |-> <<>>, cur |-> 0, dirty |-> 0, toks |-> <<>>, sdirty |-> FALSE,
        sug |-> <<>>, sugDirty |-> TRUE, focus |-> FALSE,
        index |-> 0, now |-> FALSE, app |-> 0, kv |-> 0,
        hist |-> <<>>, hpos |-> -1, row |-> <<>>, at |-> 0,
        exes |-> <<>>, ran |-> <<>>, stop |-> FALSE, code |-> 0,
        alias |-> Aliases, wd |-> <<>>, dirs |-> Dirs,
        bus |-> << <<"PrepareNewLine">> >>, pc |-> "run", err |-> "", lines |-> 0]

\* What follows a handled event: an error clears the bus and fails the line.
After(s) == CASE s.err \in {"panic", "exit"} -> [s EXCEPT !.pc = s.err]
              [] s.err \in {"parse", "unsupported"} -> [s EXCEPT !.err = "", !.bus = << <<"ProcessFailed">> >>]
              [] OTHER -> s

\* The inner loop of Shell::run.
ProcessEvent ==
  /\ sh.pc = "run" /\ sh.bus # <<>>
  /\ sh' = After(handle_event([sh EXCEPT !.bus = Tail(@)], Head(sh.bus)))

\* No event is left: the changes are written.
ProcessCompleted ==
  /\ sh.pc = "run" /\ sh.bus = <<>>
  /\ sh' = [handle_event(sh, <<"ProcessCompleted">>) EXCEPT !.pc = "input"]

\* await_input_event, and the key handed to the services.  A line that adopt
\* has made longer than MaxLine is the bound of the model.
KeyPressed(k) ==
  /\ sh.pc = "input"
  /\ k = "Enter" => sh.lines < MaxSubmits
  /\ Len(sh.line) <= MaxLine
  /\ sh' = After([handle_event(sh, <<"KeyPressed", k>>)
                    EXCEPT !.pc = "run", !.lines = IF k = "Enter" THEN @ + 1 ELSE @])

Next == ProcessEvent \/ ProcessCompleted \/ \E k \in Keys : KeyPressed(k)

vars == <<sh>>
Spec == Init /\ [][Next]_vars
\* -------------------------------------------------------------- properties

TypeOK ==
  /\ sh.line \in Seq(STRING) /\ sh.cur \in 0..Len(sh.line) /\ sh.dirty \in 0..Len(sh.line)
  /\ \A i \in DOMAIN sh.toks : sh.toks[i] \in Token
  /\ sh.hpos \in -1..(Len(sh.hist) - 1) /\ Len(sh.hist) <= MaxHistory
  /\ sh.app \in 0..Len(Registry) /\ sh.kv \in Nat
  /\ Len(sh.alias) <= MaxAlias
  /\ sh.pc \in {"run", "input", "panic", "exit"}

\* The lexer only takes back the characters from the first changed one and
\* reads on from there.  Whenever the shell waits for a key, the tokens are
\* those of the whole line read from its beginning, wherever and in whatever
\* order it was edited or recalled (lexer.rs 52-104).
TokensExact ==
  sh.pc = "input" =>
    /\ sh.toks = FoldLeft(LexerAdd, [sh EXCEPT !.toks = <<>>], sh.line).toks
    /\ FlattenSeq([i \in DOMAIN sh.toks |-> sh.toks[i].text]) = sh.line

Uncoloured(cells) == [i \in DOMAIN cells |-> cells[i][1]]

\* The writer only prints from the first changed character on and moves the
\* cursor by differences.  Whenever the shell waits for a key, the row shows
\* the prompt, every token in its colour and no rest of an older line, and the
\* cursor stands where the next character goes, or behind a focused suggestion
\* (writer.rs 73-187).
ScreenExact ==
  sh.pc = "input" =>
    LET p == Len(prompt(sh))
        shown == FlattenSeq([i \in DOMAIN sh.toks |->
                               Coloured(sh.toks[i].text, token_color(sh.toks[i]))])
        rest == SubSeq(sh.row, p + Len(shown) + 1, Len(sh.row))
    IN  /\ Uncoloured(SubSeq(sh.row, 1, p)) = prompt(sh)
        /\ SubSeq(sh.row, p + 1, p + Len(shown)) = shown
        /\ rest \in {<<>>, Coloured(sh.sug, "suggestion")}
        /\ sh.at = p + (IF sh.focus THEN Len(sh.line) + Len(sh.sug) ELSE sh.cur)

Connectors == {"Pipe", "And", "Or", "Separator", "Background"}

\* The submitted line is parsed but not yet forgotten.
Submitted == sh.pc = "run" /\ sh.bus # <<>> /\ sh.exes # <<>>

\* The executables are the commands of the line in their order, each with the
\* arguments of its segment; what stands between two commands decides the
\* condition and the pipe between them, and no pipe names a command the line
\* does not have (parser.rs 72-165; the executor indexes with it, executor.rs
\* 135-142).
JobsExact ==
  Submitted =>
    LET cmds == SelectSeq([i \in DOMAIN sh.toks |-> i], LAMBDA i : sh.toks[i].kind = "Command")
        n == Len(cmds)
        Segment(j) == SubSeq(sh.toks, cmds[j], IF j = n THEN Len(sh.toks) ELSE cmds[j + 1] - 1)
        Joint(j) == LET c == SelectSeq(Segment(j), LAMBDA t : t.kind \in Connectors)
                    IN  IF c = <<>> THEN "none" ELSE c[1].kind
        Texts(toks) == [i \in DOMAIN toks |-> toks[i].text]
    IN  /\ Len(sh.exes) = n
        /\ \A j \in 1..n :
             /\ sh.exes[j].cmd = sh.toks[cmds[j]].text
             /\ sh.exes[j].args = Texts(SelectSeq(Segment(j), LAMBDA t : t.kind = "Argument"))
             /\ sh.exes[j].req = IF j = 1 THEN <<>>
                                 ELSE CASE Joint(j - 1) = "And" -> <<j - 2, TRUE>>
                                        [] Joint(j - 1) = "Or" -> <<j - 2, FALSE>>
                                        [] OTHER -> <<>>
             /\ Joint(j) = "Pipe" <=> sh.exes[j].out = <<"job", j>>
             /\ \A io \in {sh.exes[j].in, sh.exes[j].out} : io[1] = "job" => io[2] \in 0..(n - 1)

\* A line runs its commands in order, a command after && only when the one
\* before it succeeded and one after || only when it failed, and it ends early
\* only at such a condition (executor.rs 91-100, help_tokens.txt).
RunsExact ==
  Submitted /\ ~(\E i \in DOMAIN sh.exes : Unsupported(sh.exes[i])) =>
    LET m == Len(sh.ran)
        Met(x) == x.req = <<>> \/ (x.req[2] <=> sh.ran[x.req[1] + 1] = 0)
    IN  /\ m >= 1 /\ m <= Len(sh.exes)
        /\ \A i \in 1..m : Met(sh.exes[i])
        /\ m < Len(sh.exes) => ~Met(sh.exes[m + 1])

\* The working directory is a directory that exists, written without empty
\* parts, "." and "..", whatever paths cd was given (working_directory_context.rs
\* 24-66).
WdProper == /\ sh.wd \in sh.dirs
            /\ \A i \in DOMAIN sh.wd : sh.wd[i] \notin {<<>>, <<".">>, <<".", ".">>}
=============================================================================
