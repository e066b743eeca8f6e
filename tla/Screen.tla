------------------------------- MODULE Screen -------------------------------
(***************************************************************************)
(* loader/main.cpp, menu.cpp, menu.h, menuEntry.h, graphic.cpp and             *)
(* loadermenu.cpp: what the loader shows and what a key does.  Errors come     *)
(* before information, information before a text, a text before the menu; one  *)
(* turn of main's loop paints the screen and handles one key.                  *)
(***************************************************************************)
EXTENDS Integers, Sequences

CONSTANTS
  MaxMessages,   \* MAX_MESSAGES
  MaxInput,      \* MAX_INPUT_LEN
  Lines,         \* lines of the text shown
  MaxReports     \* bound: error messages of a behaviour

VARIABLES
  errorMessage, readMsgPos, writeMsgPos,   \* ring of error messages
  reports,       \* messages reported so far
  pending,       \* the ones accepted and not yet dismissed, oldest first
  info,          \* the info buffer holds text
  input,         \* inputBuffer and writeable: "none", "show" or "edit"
  len, cursorpos,        \* length of the text edited, position of the cursor
  top,           \* history: the highest index of inputBuffer that was written
  scrollPos, inputScrollPos,
  menu,          \* current menu
  selected,      \* selectedMenu of each menu
  autoBoot,      \* auto boot is counting down
  booting,       \* the loader runs
  logging        \* bootlogActive()

screen == <<errorMessage, readMsgPos, writeMsgPos, reports, pending>>
text == <<input, len, cursorpos, top, scrollPos, inputScrollPos>>
menus == <<menu, selected, autoBoot, booting, logging>>
vars == <<screen, info, text, menus>>

NULL == 0

(* A few entries of initMenu, one of every kind: into a menu and back, a boot,   *)
(* information, a text that is shown and one that is edited.                     *)
MenuEntries == [main |-> <<"boot", "advanced">>, advanced |-> <<"main", "sub", "info">>,
                sub |-> <<"advanced", "edit", "show">>]
Parent == [main |-> "none", advanced |-> "main", sub |-> "advanced"]
Menus == DOMAIN MenuEntries

-----------------------------------------------------------------------------
(* error_printf and setErrorMessage: a full ring drops the message. *)
error_printf ==
  IF errorMessage[writeMsgPos] = NULL
  THEN /\ errorMessage' = [errorMessage EXCEPT ![writeMsgPos] = reports + 1]
       /\ writeMsgPos' = (writeMsgPos + 1) % MaxMessages
       /\ pending' = Append(pending, reports + 1)
       /\ reports' = reports + 1 /\ readMsgPos' = readMsgPos
  ELSE reports' = reports + 1 /\ UNCHANGED <<errorMessage, readMsgPos, writeMsgPos, pending>>

goToNextErrorMessage_KeepsPosition ==
  /\ errorMessage' = [errorMessage EXCEPT ![readMsgPos] = NULL]
  /\ readMsgPos' = IF Len(pending) = 1 THEN 0 ELSE (readMsgPos + 1) % MaxMessages
  /\ pending' = Tail(pending)
  /\ UNCHANGED <<writeMsgPos, reports>>

goToNextErrorMessage ==
  /\ errorMessage' = [errorMessage EXCEPT ![readMsgPos] = NULL]
  /\ readMsgPos' = (readMsgPos + 1) % MaxMessages
  /\ pending' = Tail(pending)
  /\ UNCHANGED <<writeMsgPos, reports>>

getErrorMessage == errorMessage[readMsgPos]

-----------------------------------------------------------------------------
setInputBuffer(kind) ==
  /\ scrollPos' = 0 /\ inputScrollPos' = 0 /\ input' = kind
  /\ cursorpos' = IF kind = "edit" THEN len ELSE 0
  /\ len' = len /\ top' = top

(* What the keys go to, and what is painted unless the boot log covers it, as   *)
(* it does for good once a boot has begun: nothing switches it off again.       *)
Shown == CASE getErrorMessage # NULL -> "error" [] info -> "info"
           [] input # "none" -> "text" [] OTHER -> "menu"

(* What painting does to a scroll position: printTextBlock stops at the last    *)
(* line.  Behind the boot log it is not called.                                 *)
Clamp(pos) == IF Lines < pos /\ ~logging THEN Lines ELSE pos
MaxScroll == Lines + 2       \* bound: how far a text that is not painted is scrolled

Scroll(by) ==
  LET pos == IF input # "none" THEN inputScrollPos ELSE scrollPos
      new == Clamp(IF pos + by < 0 THEN 0 ELSE pos + by)
  IN /\ new <= MaxScroll
     /\ \/ input # "none" /\ inputScrollPos' = new /\ scrollPos' = scrollPos
        \/ input = "none" /\ scrollPos' = new /\ inputScrollPos' = inputScrollPos
     /\ UNCHANGED <<input, len, cursorpos, top>>

(* Menu::selectUp, Menu::selectDown. *)
Select(m, by) ==
  LET new == selected[m] + by
      first == IF new < 1 THEN 1 ELSE new
      last == IF first > Len(MenuEntries[m]) THEN Len(MenuEntries[m]) ELSE first
  IN selected' = [selected EXCEPT ![m] = last]

(* Menu::execute of the selected entry, with the menu off meanwhile.  The      *)
(* entry may open another menu, else the loop restores this one.               *)
Execute(m) ==
  LET e == MenuEntries[m][selected[m]]
  IN /\ menu' = IF e \in Menus THEN e ELSE m
     /\ selected' = selected
     /\ booting' = (e = "boot") /\ logging' = logging
     /\ \/ e = "boot" /\ UNCHANGED <<screen, info, text>>
        \/ e = "info" /\ info' = TRUE /\ UNCHANGED <<screen, text>>
        \/ e \in {"edit", "show"} /\ setInputBuffer(e) /\ UNCHANGED <<screen, info>>
        \/ e \in Menus /\ UNCHANGED <<screen, info, text>>

(* A boot reports errors on its way, and only comes back after a failure.  Once  *)
(* it has read the kernel it calls bootlogBegin.                                *)
Boot ==
  /\ booting
  /\ \/ reports < MaxReports /\ error_printf /\ booting' = TRUE
     \/ booting' = FALSE /\ UNCHANGED screen
  /\ logging' \in {logging, TRUE}
  /\ UNCHANGED <<info, text, menu, selected, autoBoot>>

-----------------------------------------------------------------------------
Idle == ~autoBoot /\ ~booting

(* main, before the loop: the default entry is executed unless a key stops it. *)
AutoBoot ==
  /\ autoBoot /\ autoBoot' = FALSE
  /\ \/ Execute("main")
     \/ UNCHANGED <<screen, info, text, menu, selected, booting, logging>>

(* CROSS dismisses an error; every other key waits. *)
ErrorKey ==
  /\ Idle /\ Shown = "error" /\ goToNextErrorMessage
  /\ UNCHANGED <<info, text, menus>>

InfoKey ==
  /\ Idle /\ Shown = "info"
  /\ \/ \E by \in {-8, -1, 1, 8} : Scroll(by) /\ info' = info
     \/ /\ info' = FALSE /\ scrollPos' = 0                   \* clearInfoBuffer
        /\ UNCHANGED <<input, len, cursorpos, top, inputScrollPos>>
  /\ UNCHANGED <<screen, menus>>

(* A text: scrolled, left, and edited when it may be written.  A character is    *)
(* inserted by moving what is behind it, from buffer[len + 1] on downwards, one   *)
(* place up: the first byte that is written is buffer[len + 2].                  *)
Insert ==
  /\ len < MaxInput - 1
  /\ len' = len + 1 /\ cursorpos' = IF cursorpos < len' THEN cursorpos + 1 ELSE cursorpos
  /\ top' = IF top < len + 2 THEN len + 2 ELSE top

Backspace ==
  /\ cursorpos > 0 /\ len' = len - 1 /\ cursorpos' = cursorpos - 1 /\ top' = top

Delete ==
  /\ cursorpos < len /\ len' = len - 1 /\ cursorpos' = cursorpos /\ top' = top

MoveCursor ==
  /\ cursorpos' \in {0, len} \cup ({cursorpos - 1, cursorpos + 1} \cap 0..len)
  /\ len' = len /\ top' = top

EditKey ==
  /\ input = "edit"
  /\ Insert \/ Backspace \/ Delete \/ MoveCursor
  /\ UNCHANGED <<input, scrollPos, inputScrollPos>>

TextKey ==
  /\ Idle /\ Shown = "text"
  /\ \/ \E by \in {-8, -1, 1, 8} : Scroll(by)
     \/ setInputBuffer("none")
     \/ EditKey
  /\ UNCHANGED <<screen, info, menus>>

(* The menu: moving, opening, CIRCLE to the parent, TRIANGLE to the advanced   *)
(* menu.                                                                       *)
MenuKey ==
  /\ Idle /\ Shown = "menu"
  /\ \/ \E by \in {-8, -1, 1, 8} : Select(menu, by) /\ UNCHANGED <<screen, info, text, menu, booting>>
     \/ Execute(menu)
     \/ /\ menu' = IF Parent[menu] = "none" THEN menu ELSE Parent[menu]
        /\ UNCHANGED <<screen, info, text, selected, booting>>
     \/ menu' = "advanced" /\ UNCHANGED <<screen, info, text, selected, booting>>
  /\ UNCHANGED <<autoBoot, logging>>

-----------------------------------------------------------------------------
Init ==
  /\ errorMessage = [i \in 0..(MaxMessages - 1) |-> NULL]
  /\ readMsgPos = 0 /\ writeMsgPos = 0 /\ reports = 0 /\ pending = <<>>
  /\ info \in BOOLEAN /\ input = "none" /\ len = 1 /\ cursorpos = 0 /\ top = 1
  /\ scrollPos = 0 /\ inputScrollPos = 0
  /\ menu = "main" /\ selected = [m \in Menus |-> 1]
  /\ autoBoot \in BOOLEAN /\ booting = FALSE
  /\ logging \in BOOLEAN           \* an instant boot logs from the beginning

Next == AutoBoot \/ Boot \/ ErrorKey \/ InfoKey \/ TextKey \/ MenuKey

Spec == Init /\ [][Next]_vars

-----------------------------------------------------------------------------
(* Errors are shown in the order they were reported and none that the ring     *)
(* accepted is skipped, also after it was full and has wrapped around.         *)
ErrorsInOrder ==
  /\ getErrorMessage = IF pending = <<>> THEN NULL ELSE Head(pending)
  /\ \A n \in 1..Len(pending) :
       errorMessage[(readMsgPos + n - 1) % MaxMessages] = pending[n]

(* While a text is edited the cursor stays inside it, and an insertion writes no  *)
(* further than one byte behind the buffer: it does write that byte when the text *)
(* grows to its full length.  A menu's selection is one of its entries.           *)
CursorInText ==
  /\ input = "edit" => cursorpos \in 0..len
  /\ top <= MaxInput
  /\ \A m \in Menus : selected[m] \in 1..Len(MenuEntries[m])
=============================================================================
