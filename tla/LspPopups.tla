------------------------------ MODULE LspPopups ------------------------------
(* What pops up over the text: the list of completions                       *)
(* (lsp-autocomplete.c) and the call tips with a signature (lsp-signature.c), *)
(* the documentation under the mouse (lsp-hover.c) or a diagnostic            *)
(* (lsp-diagnostics.c), over the notifications of on_editor_notify()          *)
(* (lsp-main.c).  All but the last are answers of the server, which come      *)
(* after the text, the caret and the document shown may have changed, and     *)
(* Scintilla has one list and one call tip per editor.                        *)
EXTENDS Naturals, FiniteSets

CONSTANTS
  Tab,         \* the documents open, each in a tab with an editor
  Nothing,
  Hasty,       \* text or caret may change without a request while one that would be shown is unanswered
  MaxChanges,  \* bound: changes of a document's text or caret
  MaxSent,     \* bound: completions requested
  MaxPending   \* bound: requests unanswered at a time

Tip == {"signature", "hover", "diagnostic"}

VARIABLES
  cur,     \* document_get_current()
  focus,   \* whether its editor has the focus
  now,     \* per document, how often its text or caret has changed
  ac,      \* completion: sent_request_id, received_request_id, discard_up_to_request_id,
           \* the request displayed_autocomplete_symbols and Scintilla's list are of
  tips,    \* the call tip shown, calltip_sci of each file, and signatures
  awaiting, \* requests unanswered
  closed,  \* sent_request_id when the user last closed a list
  edit     \* the last text edit of a completion applied: to which text, made for which

popupVars == <<cur, focus, now, ac, tips, awaiting, closed, edit>>

PopupInit ==
  /\ cur \in Tab
  /\ focus = TRUE
  /\ now = [d \in Tab |-> 0]
  /\ ac = [sent |-> 0, received |-> 0, discard |-> 0, displayed |-> Nothing, list |-> Nothing]
  /\ tips = [shown |-> Nothing, sci |-> [k \in Tip |-> Nothing], signatures |-> "null"]
  /\ awaiting = {}
  /\ closed = 0
  /\ edit = Nothing

-----------------------------------------------------------------------------
(* Scintilla, as the plugin drives it                                         *)

\* Mutant: requests sent before are not discarded.
AutocCancelled_keepsPending(a) == [a EXCEPT !.displayed = Nothing]

(* The handler of SCN_AUTOCCANCELLED.                                         *)
AutocCancelled(a) == [a EXCEPT !.displayed = Nothing, !.discard = a.sent]

(* The user or the loss of focus closes the list, which Scintilla reports.    *)
ListClosed(a) == IF a.list = Nothing THEN a ELSE [AutocCancelled(a) EXCEPT !.list = Nothing]

(* SCI_AUTOCCANCEL closes the list too; versions differ in whether they       *)
(* report that as well.                                                       *)
SciAutocCancel(a) == {ListClosed(a), [a EXCEPT !.list = Nothing]}

(* SCI_CALLTIPSHOW and SCI_AUTOCSHOW replace each other's window silently.    *)
CalltipShow(t, kind) == [t EXCEPT !.shown = kind, !.sci[kind] = cur]

CalltipCancel(t) == [t EXCEPT !.shown = Nothing]

(* lsp_signature_hide_calltip(), lsp_hover_hide_calltip() and                 *)
(* lsp_diagnostics_hide_calltip(): each trusts the editor it last used.       *)
HideSignature(t) ==
  IF t.sci["signature"] = cur /\ t.signatures = "some"
  THEN [CalltipCancel(t) EXCEPT !.sci["signature"] = Nothing, !.signatures = "null"]
  ELSE t

HideTip(t, kind) ==
  IF t.sci[kind] = cur THEN [CalltipCancel(t) EXCEPT !.sci[kind] = Nothing] ELSE t

HideTips(t) == HideTip(HideTip(t, "hover"), "diagnostic")

ShowingSignature == tips.shown # Nothing /\ tips.sci["signature"] = cur /\ tips.signatures = "some"

-----------------------------------------------------------------------------
(* Requests                                                                   *)

InFlight(new) == awaiting' = awaiting \cup new

Room == Cardinality(awaiting) < MaxPending

(* A completion unanswered whose answer would be shown.                       *)
Awaited(a) == \E c \in awaiting : c.what = "completion" /\ c.id > a.received /\ c.id > a.discard

(* lsp_autocomplete_completion(): nothing to complete here, or a request.     *)
Completion(a, at) ==
  {[ac |-> b, new |-> {}] : b \in SciAutocCancel(a)} \cup
  IF a.sent < MaxSent /\ Room
  THEN {[ac |-> [a EXCEPT !.sent = @ + 1],
         new |-> {[what |-> "completion", doc |-> cur, at |-> at, id |-> a.sent + 1]}]}
  ELSE {}

(* lsp_signature_send_request(): behind a closing bracket the signature is    *)
(* hidden, behind a trigger character or if forced it is requested.           *)
Signature(t, force) ==
  (IF force THEN {} ELSE {[tips |-> t, new |-> {}], [tips |-> HideSignature(t), new |-> {}]}) \cup
  IF Room
  THEN {[tips |-> t, new |-> {[what |-> "signature", doc |-> cur, force |-> force]}]}
  ELSE {}

-----------------------------------------------------------------------------
(* The user                                                                   *)

Changed(d) == /\ now[d] < MaxChanges
              /\ now' = [now EXCEPT ![d] = @ + 1]

(* A character is typed: on_editor_notify(), then Geany asks the plugin for   *)
(* a signature and for completions.                                           *)
CharAdded ==
  /\ focus
  /\ Changed(cur)
  /\ \E s \in Signature(HideTips(tips), FALSE), c \in Completion(ac, now[cur] + 1) :
       /\ c.new # {} \/ Hasty \/ ~Awaited(c.ac)
       /\ tips' = s.tips
       /\ ac' = c.ac
       /\ InFlight(s.new \cup c.new)
  /\ UNCHANGED <<cur, focus, closed, edit>>

(* The key bindings that ask for completions or for a signature.              *)
CompletionForced ==
  /\ focus
  /\ \E c \in Completion(ac, now[cur]) : ac' = c.ac /\ InFlight(c.new)
  /\ UNCHANGED <<cur, focus, now, tips, closed, edit>>

SignatureForced ==
  /\ focus
  /\ \E s \in Signature(tips, TRUE) : tips' = s.tips /\ InFlight(s.new)
  /\ UNCHANGED <<cur, focus, now, ac, closed, edit>>

(* The caret moves, with or without a change of the text, or it scrolls.      *)
UpdateUi ==
  /\ Changed(cur) \/ UNCHANGED now
  /\ tips' = HideTips(HideSignature(tips))
  /\ ac' \in SciAutocCancel(ac)
  /\ now' = now \/ Hasty \/ ~Awaited(ac')
  /\ UNCHANGED <<cur, focus, awaiting, closed, edit>>

\* Mutant: without the test that the list is up to date
ExactEdit_always(a, single) == single

(* lsp_autocomplete_item_selected(): the text edit of the server is used if   *)
(* the list is the answer to the last request.                                *)
ExactEdit(a, single) == single /\ a.sent = a.received

(* An item of the list is picked.  With several selections, or a stale list,  *)
(* its text is inserted over the word before each caret instead.              *)
ItemSelected ==
  /\ ac.list # Nothing /\ focus
  /\ Changed(cur)
  /\ \E single \in BOOLEAN :
       LET a == IF ac.sent # ac.received THEN [ac EXCEPT !.discard = ac.sent] ELSE ac
       IN /\ edit' = IF ExactEdit(ac, single) THEN [made |-> ac.displayed.at, on |-> now[cur]] ELSE edit
          /\ \E b \in SciAutocCancel(a) : ac' = [b EXCEPT !.displayed = Nothing]
  /\ closed' = ac.sent
  /\ UNCHANGED <<cur, focus, tips, awaiting>>

(* Escape, or the focus goes elsewhere, or another tab is selected.           *)
CancelModes ==
  /\ ac' = ListClosed(ac)
  /\ closed' = IF ac.list = Nothing THEN closed ELSE ac.sent
  /\ tips' = CalltipCancel(tips)
  /\ UNCHANGED <<now, awaiting, edit>>

Escape == focus /\ (ac.list # Nothing \/ tips.shown # Nothing) /\ CancelModes /\ UNCHANGED <<cur, focus>>

FocusOut == focus /\ focus' = FALSE /\ CancelModes /\ UNCHANGED cur

FocusIn == ~focus /\ focus' = TRUE /\ UNCHANGED <<cur, now, ac, tips, awaiting, closed, edit>>

SwitchTab(d) == d # cur /\ cur' = d /\ focus' = TRUE /\ CancelModes

(* The mouse rests.                                                           *)
DwellStart ==
  /\ focus /\ ~ShowingSignature
  /\ \/ /\ tips' = CalltipShow(tips, "diagnostic")
        /\ ac' = [ac EXCEPT !.list = Nothing]
        /\ UNCHANGED awaiting
     \/ /\ Room
        /\ InFlight({[what |-> "hover", doc |-> cur]})
        /\ UNCHANGED <<tips, ac>>
  /\ UNCHANGED <<cur, focus, now, closed, edit>>

DwellEnd ==
  /\ tips' = HideTips(tips)
  /\ UNCHANGED <<cur, focus, now, ac, awaiting, closed, edit>>

-----------------------------------------------------------------------------
(* The answers, in any order, or errors                                       *)

Replied(c) == c \in awaiting /\ awaiting' = awaiting \ {c} /\ UNCHANGED <<cur, focus, now, closed, edit>>

AutocompleteFits(c) == c.doc = cur /\ c.id > ac.received /\ c.id > ac.discard

(* show_tags_list() *)
ShowTagsList(a, symbols) == [a EXCEPT !.displayed = symbols, !.list = symbols]

(* autocomplete_cb() and process_response(): there is something to show, or   *)
(* nothing fits what is typed by now.                                         *)
AutocompleteCb(c) ==
  /\ c.what = "completion" /\ Replied(c)
  /\ IF AutocompleteFits(c)
     THEN LET a == [ac EXCEPT !.received = c.id]
          IN \/ /\ ac' = ShowTagsList(a, [id |-> c.id, at |-> c.at])
                /\ tips' = CalltipCancel(tips)
             \/ ac' \in SciAutocCancel(a) /\ UNCHANGED tips
     ELSE UNCHANGED <<ac, tips>>

(* signature_cb(): a null response hides the signature shown; another is      *)
(* shown if the caret is less than ten characters on, unless there is a list. *)
SignatureCb(c) ==
  /\ c.what = "signature" /\ Replied(c)
  /\ \E reply \in {"null", "empty", "some"}, near \in BOOLEAN :
       /\ CASE c.doc # cur -> UNCHANGED <<ac, tips>>
            [] c.doc = cur /\ reply = "null" /\ ShowingSignature ->
                 tips' = HideSignature(tips) /\ UNCHANGED ac
            [] c.doc = cur /\ ~(reply = "null" /\ ShowingSignature) ->
                 IF ~near \/ (~c.force /\ ac.list # Nothing) THEN UNCHANGED <<ac, tips>>
                 ELSE IF reply = "some"
                 THEN /\ tips' = [CalltipShow(tips, "signature") EXCEPT !.signatures = "some"]
                      /\ ac' = [ac EXCEPT !.list = Nothing]
                 ELSE /\ tips' = [CalltipCancel(tips) EXCEPT !.signatures = "empty"]
                      /\ UNCHANGED ac

(* hover_cb() *)
HoverCb(c) ==
  /\ c.what = "hover" /\ Replied(c)
  /\ \/ /\ c.doc = cur /\ focus
        /\ tips' = CalltipShow(tips, "hover")
        /\ ac' = [ac EXCEPT !.list = Nothing]
     \/ UNCHANGED <<ac, tips>>

Failed(c) == Replied(c) /\ UNCHANGED <<ac, tips>>

PopupNext ==
  \/ CharAdded \/ CompletionForced \/ SignatureForced \/ UpdateUi \/ ItemSelected
  \/ Escape \/ FocusOut \/ FocusIn \/ DwellStart \/ DwellEnd
  \/ \E d \in Tab : SwitchTab(d)
  \/ \E c \in awaiting : AutocompleteCb(c) \/ SignatureCb(c) \/ HoverCb(c) \/ Failed(c)

PopupSpec == PopupInit /\ [][PopupNext]_popupVars

-----------------------------------------------------------------------------
(* Properties                                                                 *)

(* The list on the screen is the one the plugin takes the picked item from,   *)
(* is of the last request answered, and was requested after the user last     *)
(* closed a list: a late answer does not bring it back.                       *)
ListIsLatest ==
  ac.list # Nothing =>
    /\ ac.displayed = ac.list
    /\ ac.list.id = ac.received
    /\ ac.list.id > closed

(* The text edits of a completion are applied to the text and caret they were *)
(* made for, else the item is inserted over the word before the caret.        *)
EditsUpToDate == edit # Nothing => edit.made = edit.on
=============================================================================
