------------------------------- MODULE Editor -------------------------------
(***************************************************************************)
(* The editor of the shell (usr/myvi.c): a text, a cursor in it, and the part *)
(* of it that is on the screen.  Locations count from 0 as in the code, so     *)
(* that text[l] is the character in front of location l.                     *)
(*                                                                         *)
(* Characters are line ends and others of one column; a tab, and a carriage    *)
(* return that is typed, are left out.  Bounds of the model: the user types no  *)
(* more than MaxInst characters in the last line, where the code looks at no    *)
(* limit, and no backspace at location 0, which would set the cursor to -1.     *)
(***************************************************************************)
EXTENDS Integers, FiniteSetsExt, Sequences, SequencesExt

\* What they must satisfy is the FilesAssumption of Files.
CONSTANTS
    BUFFER_SIZE,            \* the longest text
    ROW_LEN, COLUMN_LEN,    \* the screen
    MaxInst,                \* bound of the model: the longest instruction
    MaxFile                 \* bound of the model: the longest file that is opened

VARIABLES
    text,           \* buffer, of length size
    cursor,         \* cursor_location
    page,           \* page_location, where the screen begins
    page_end,       \* where it ended when it was last written
    mode,           \* "command", "insert" or "last line"
    instruction,    \* what was typed in the last line
    err,            \* 0 while the editor runs
    saved,          \* history: what save_file has written
    narrow          \* history: whether no line has ever filled a row of the screen

edit_vars == <<text, cursor, page, page_end, mode, instruction, err, saved, narrow>>

NL == "newline"
CR == "return"
Char == {"char", NL}
ESC == "escape"
BS == "backspace"
Nothing == <<"nothing">>

size == Len(text)

-----------------------------------------------------------------------------
(* Lines and the screen *)

\* The beginning of the line that location l of t is in, and the place of its end.
LineStart(t, l) == Max({k \in 0 .. l : k = 0 \/ t[k] = NL})
LineEnd(t, l) == Min({k \in l .. Len(t) : k = Len(t) \/ t[k + 1] = NL})

\* screen_flush: the row and column of location l, and the first one below the screen.
Place(t, p) ==
    LET place[l \in p .. Len(t)] ==
            IF l = p THEN [row |-> 0, column |-> 0]
            ELSE LET last == place[l - 1]
                 IN  IF t[l] = NL \/ last.column + 1 = COLUMN_LEN
                     THEN [row |-> last.row + 1, column |-> 0]
                     ELSE [last EXCEPT !.column = @ + 1]
    IN  place
screen_flush(t, p) ==
    Min({l \in p .. Len(t) : l = Len(t) \/ Place(t, p)[l].row >= ROW_LEN})

page_location_last_line(t, p) == IF p = 0 THEN p ELSE LineStart(t, p - 1)

page_location_next_line(t, p) == IF LineEnd(t, p) + 1 < Len(t) THEN LineEnd(t, p) + 1 ELSE p

Narrow(t) == \A l \in 0 .. Len(t) - 1 : LineEnd(t, l) - l < COLUMN_LEN

\* The text t with the cursor at c is written from p on, or from a line before or behind.
Show(t, c, p, end) ==
    LET q == IF c < p THEN page_location_last_line(t, p)
             ELSE IF c >= end THEN page_location_next_line(t, p) ELSE p
    IN  /\ text' = t /\ cursor' = c /\ page' = q
        /\ page_end' = screen_flush(t, q)
        /\ narrow' = (narrow /\ Narrow(t))

-----------------------------------------------------------------------------
(* do_command_mode *)

cursor_next_line == IF LineEnd(text, cursor) + 1 < size THEN LineEnd(text, cursor) + 1 ELSE cursor

\* Stops at the beginning of its own line when it is inside one, and never gets to the
\* first line.
cursor_prev_line ==
    IF cursor = 0 \/ LineStart(text, cursor - 1) = 0 THEN cursor
    ELSE LineStart(text, cursor - 1)

Left == IF cursor > 0 /\ text[cursor] # NL THEN cursor - 1 ELSE cursor
Right == IF cursor + 1 < size /\ text[cursor + 1] # NL THEN cursor + 1 ELSE cursor

Move ==
    /\ mode = "command"
    /\ \E c \in {cursor_next_line, cursor_prev_line, Left, Right} : Show(text, c, page, page_end)
    /\ UNCHANGED <<mode, instruction, err, saved>>

\* Variant of DeleteAt that takes the last line end too.
Bad_DeleteAt == RemoveAt(text, cursor + 1)

\* The key x: the character at the cursor, but for the last one.
DeleteAt == IF cursor # size - 1 THEN RemoveAt(text, cursor + 1) ELSE text

Delete ==
    /\ mode = "command"
    /\ Show(DeleteAt, cursor, page, page_end)
    /\ UNCHANGED <<mode, instruction, err, saved>>

ToInsert ==
    /\ mode = "command"
    /\ mode' = "insert"
    /\ UNCHANGED <<text, cursor, page, page_end, instruction, err, saved, narrow>>

ToLastLine ==
    /\ mode = "command"
    /\ mode' = "last line"
    /\ instruction' = <<":">>
    /\ Show(text, cursor, page, page_end)
    /\ UNCHANGED <<err, saved>>

-----------------------------------------------------------------------------
(* do_insert_mode *)

\* insert_key: without room the editor ends.
Insert(c) ==
    /\ mode = "insert"
    /\ LET full == size >= BUFFER_SIZE
           t == IF full THEN text ELSE InsertAt(text, cursor + 1, c)
       IN  /\ Show(t, cursor + 1, page, screen_flush(t, page))
           /\ err' = IF full THEN 1 ELSE err
    /\ UNCHANGED <<mode, instruction, saved>>

Backspace ==
    /\ mode = "insert"
    /\ cursor # 0
    /\ LET t == RemoveAt(text, cursor)
       IN  Show(t, cursor - 1, page, Len(t))
    /\ UNCHANGED <<mode, instruction, err, saved>>

ToCommand ==
    /\ mode = "insert"
    /\ mode' = "command"
    /\ UNCHANGED <<text, cursor, page, page_end, instruction, err, saved, narrow>>

-----------------------------------------------------------------------------
(* do_last_line_mode *)

\* screen_flush at the end of a key that changes neither text nor cursor
Refreshed == page_end' = screen_flush(text, page) /\ UNCHANGED <<text, cursor, page, narrow>>

LastLine(key) ==
    /\ mode = "last line"
    /\ Refreshed
    /\ CASE key = ESC -> mode' = "command" /\ instruction' = <<>> /\ UNCHANGED <<err, saved>>
         [] key = BS  -> /\ instruction' = SubSeq(instruction, 1, Len(instruction) - 1)
                         /\ UNCHANGED <<mode, err, saved>>
         [] key = NL  -> /\ err' = IF instruction \in {<<":", "q", "!">>, <<":", "w", "q">>} THEN 1 ELSE err
                         /\ saved' = IF instruction = <<":", "w", "q">> THEN text ELSE saved
                         /\ UNCHANGED <<mode, instruction>>
         [] OTHER     -> /\ Len(instruction) < MaxInst
                         /\ instruction' = Append(instruction, key)
                         /\ UNCHANGED <<mode, err, saved>>

-----------------------------------------------------------------------------
\* load_file: no carriage returns, a line end at the end; a file that needs the whole
\* buffer is too long.
Stripped(file) ==
    LET upTo[k \in 0 .. Len(file)] ==
            IF k = 0 THEN <<>>
            ELSE IF file[k] = CR THEN upTo[k - 1] ELSE Append(upTo[k - 1], file[k])
    IN  upTo[Len(file)]
Loaded(file) ==
    LET t == Stripped(file)
    IN  IF Len(t) >= BUFFER_SIZE - 1 THEN [text |-> SubSeq(t, 1, BUFFER_SIZE - 1), err |-> 2]
        ELSE [text |-> IF t = <<>> \/ Last(t) # NL THEN Append(t, NL) ELSE t, err |-> 0]

\* myvi up to the first key; a file that is not there has no text.
Open(file) ==
    /\ err # 0
    /\ text' = Loaded(file).text /\ err' = Loaded(file).err
    /\ cursor' = 0 /\ page' = 0 /\ page_end' = screen_flush(text', 0)
    /\ mode' = "command" /\ instruction' = <<>> /\ saved' = Nothing
    /\ narrow' = Narrow(text')

\* The loop of myvi.
Key ==
    /\ err = 0
    /\ \/ Move \/ Delete \/ ToInsert \/ ToLastLine
       \/ Backspace \/ ToCommand
       \/ \E c \in Char : Insert(c)
       \/ \E key \in {ESC, BS, NL, "w", "q", "!"} : LastLine(key)

Init ==
    /\ text = <<>> /\ cursor = 0 /\ page = 0 /\ page_end = 0
    /\ mode = "command" /\ instruction = <<>> /\ saved = Nothing
    /\ err = 1 /\ narrow = TRUE

Next ==
    \/ \E n \in 0 .. MaxFile : \E file \in [1 .. n -> Char \cup {CR}] : Open(file)
    \/ Key

-----------------------------------------------------------------------------
(* Properties *)

\* While the editor runs the cursor is on a character of the text, which ends with a
\* line end, whatever is inserted, deleted and moved; and it is on the screen, as long
\* as no line has filled a row: the page moves by one line where a long line takes
\* several rows.
CursorShown ==
    err = 0 =>
        /\ cursor \in 0 .. size - 1 /\ Last(text) = NL
        /\ narrow => page <= cursor /\ cursor < page_end
=============================================================================
