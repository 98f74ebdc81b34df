----------------------------- MODULE PageReader -----------------------------
(***************************************************************************)
(* The extension in a page: the popup under the mouse (content.ts,         *)
(* popup-store.ts), the underlines of the words of the deck                *)
(* (srs-highlighter.ts), and the copy of the deck in storage.local whose   *)
(* change events keep them up to date (background/cards-backup.ts).        *)
(*                                                                         *)
(* The page has an article, over which the mouse moves, and a feed the     *)
(* page's own script refills. Timers are pending or not; what fires first  *)
(* is left open. Pinning the popup changes its icon only and is left out.  *)
(***************************************************************************)
EXTENDS Dictionary

CONSTANTS Articles,    \* texts the article can have
          Feed,        \* what the feed is filled with
          Spots,       \* offsets of the article the mouse rests on
          Blank, OverPopup, Outside,  \* the other places for the mouse
          Words,       \* entries that come into the deck and leave it
          Patient,     \* TRUE: the deck does not change while one of the page's two
                       \* requests about it is being answered
          MaxChanges,  \* bound on the changes of the deck
          MaxRefills   \* bound on the changes of the feed

ASSUME ReaderAssumption ==
  /\ Articles \subseteq Seq(Char) /\ Feed \in Seq(Char)
  /\ Spots \subseteq Nat /\ Patient \in BOOLEAN
  /\ {Blank, OverPopup, Outside} \cap Spots = {} /\ Blank # OverPopup
  /\ Outside \notin {Blank, OverPopup} /\ None \notin Spots \cup {Blank} \cup Words
  /\ None \notin [entries: Seq(DOMAIN Headword), by: {"hover", "selection"}]
  /\ MaxChanges \in Nat /\ MaxRefills \in Nat

VARIABLES
  page,          \* the text of each node
  on,            \* the stored switch and the page's `enabled`
  dictionary,    \* "none", "loading" or "ready"
  mouse,         \* where it is: a spot, or one of the other three places
  hoverTimer,    \* the place of the move that started it, or None
  hideTimer,
  wasOverPopup,
  popup,         \* None, or the entries shown and what asked for them
  lastLookedUp,  \* a headword, or None
  mark,          \* the range highlighted under the mouse, or None
  highlighter,   \* how far its start has come
  reply,         \* the deck as the background's answer has it
  known,         \* srsSequences
  painted,       \* the underlined ranges
  rebuildTimer, observing, active,
  deck,          \* the words in the background's store
  backup,        \* their copy in storage.local
  backupDue,     \* a change that is not yet copied
  adding,        \* the word whose "Add" in the popup is not yet answered, or None
  spent

pageVars == <<page, on, dictionary>>
popupVars == <<mouse, hoverTimer, hideTimer, wasOverPopup, popup, lastLookedUp, mark>>
lineVars == <<highlighter, reply, known, painted, rebuildTimer, observing, active>>
deckVars == <<deck, backup, backupDue, adding, spent>>
vars == <<pageVars, popupVars, lineVars, deckVars>>

Init ==
  /\ page \in {[n \in {"article", "feed"} |-> IF n = "feed" THEN <<>> ELSE a] : a \in Articles}
  /\ on \in BOOLEAN
  /\ dictionary = IF on THEN "loading" ELSE "none"
  /\ mouse = Outside /\ hoverTimer = None /\ hideTimer = FALSE /\ wasOverPopup = FALSE
  /\ popup = None /\ lastLookedUp = None /\ mark = None
  /\ highlighter = "off" /\ reply = {} /\ known = {} /\ painted = {}
  /\ rebuildTimer = FALSE /\ observing = FALSE /\ active = TRUE
  /\ deck \in SUBSET Words /\ backup = deck /\ backupDue = FALSE /\ adding = None
  /\ spent = [changes |-> 0, refills |-> 0]

-----------------------------------------------------------------------------
(* The popup.                                                              *)

\* Mutant: only the popup is hidden.
ForceHideOnly == popup' = None /\ UNCHANGED <<mark, lastLookedUp>>

ForceHide == popup' = None /\ mark' = None /\ lastLookedUp' = None

MoveTo(p) ==
  /\ mouse' = p
  /\ IF ~on THEN UNCHANGED <<hoverTimer, wasOverPopup, popup, lastLookedUp, mark>>
     ELSE IF wasOverPopup
     THEN wasOverPopup' = FALSE /\ hoverTimer' = None /\ ForceHide
     ELSE hoverTimer' = p /\ UNCHANGED <<wasOverPopup, popup, lastLookedUp, mark>>
  /\ UNCHANGED <<pageVars, hideTimer, lineVars, deckVars>>

MoveOverPopup ==
  /\ popup # None
  /\ mouse' = OverPopup /\ hoverTimer' = None /\ hideTimer' = FALSE /\ wasOverPopup' = TRUE
  /\ UNCHANGED <<pageVars, popup, lastLookedUp, mark, lineVars, deckVars>>

\* The pending hover is not called off.
Leave ==
  /\ mouse # Outside /\ mouse' = Outside /\ hideTimer' = TRUE
  /\ UNCHANGED <<pageVars, hoverTimer, wasOverPopup, popup, lastLookedUp, mark, lineVars, deckVars>>

\* Blank space and editable text have no word to show.
Hovers == {[text |-> a, spot |-> p, hit |-> Hover(a, p)] : a \in Articles, p \in Spots}

At(p) ==
  IF p \in Spots
  THEN (CHOOSE h \in Hovers : h.text = page["article"] /\ h.spot = p).hit ELSE None

Shown(hit) == Headword[hit.entries[1]]

\* The highlight is set anew, the popup only for another headword.
ShowHit(hit) ==
  /\ hideTimer' = FALSE /\ mark' = [start |-> hit.start, end |-> hit.end]
  /\ lastLookedUp' = Shown(hit)
  /\ popup' = IF Shown(hit) = lastLookedUp THEN popup
              ELSE [entries |-> hit.entries, by |-> "hover"]

\* Mutant: a hover over no word leaves the popup alone.
HandleHoverStays ==
  /\ hoverTimer # None /\ hoverTimer' = None
  /\ \E hit \in {At(hoverTimer)} :
       IF ~on \/ dictionary # "ready" \/ hit = None
       THEN UNCHANGED <<hideTimer, popup, lastLookedUp, mark>>
       ELSE ShowHit(hit)
  /\ UNCHANGED <<pageVars, mouse, wasOverPopup, lineVars, deckVars>>

HandleHover ==
  /\ hoverTimer # None /\ hoverTimer' = None
  /\ \E hit \in {At(hoverTimer)} :
       IF ~on \/ dictionary # "ready"
       THEN UNCHANGED <<hideTimer, popup, lastLookedUp, mark>>
       ELSE IF hit = None
       THEN hideTimer' = TRUE /\ UNCHANGED <<popup, lastLookedUp, mark>>
       ELSE ShowHit(hit)
  /\ UNCHANGED <<pageVars, mouse, wasOverPopup, lineVars, deckVars>>

HideFires ==
  /\ hideTimer /\ hideTimer' = FALSE /\ ForceHide
  /\ UNCHANGED <<pageVars, mouse, hoverTimer, wasOverPopup, lineVars, deckVars>>

\* A mouse button released over selected text: an exact lookup, no highlight.
\* (The preference for primary entries is left out.)
Select(key) ==
  /\ on /\ dictionary = "ready" /\ Lookup(key) # <<>>
  /\ popup' = [entries |-> Lookup(key), by |-> "selection"]
  /\ lastLookedUp' = key
  /\ UNCHANGED <<pageVars, mouse, hoverTimer, hideTimer, wasOverPopup, mark, lineVars, deckVars>>

Escape ==
  /\ popup # None /\ ForceHide
  /\ UNCHANGED <<pageVars, mouse, hoverTimer, hideTimer, wasOverPopup, lineVars, deckVars>>

-----------------------------------------------------------------------------
(* The underlines.                                                         *)

Texts == Articles \cup {Feed, <<>>}

Found ==
  {[text |-> s, words |-> k, ranges |-> FindInText(s, k)] : s \in Texts, k \in SUBSET Words}

OnPage(found, words) ==
  UNION {{node} \X (CHOOSE f \in found : f.text = page[node] /\ f.words = words).ranges :
         node \in DOMAIN page}

\* The text nodes are scanned one by one.
Rebuilt(words) == OnPage(Found, words)

\* Nothing is repainted while lookups are switched off.
Rebuild(words) ==
  painted' = IF ~active THEN painted ELSE IF dictionary # "ready" THEN {} ELSE Rebuilt(words)

\* initSrsHighlighter asks for the words of the deck.
Load ==
  /\ dictionary = "loading" /\ dictionary' = "ready" /\ highlighter' = "asked"
  /\ UNCHANGED <<page, on, popupVars, reply, known, painted, rebuildTimer, observing,
                 active, deckVars>>

\* Tried again when lookups are next switched on.
LoadFails ==
  /\ dictionary = "loading" /\ dictionary' = "none"
  /\ UNCHANGED <<page, on, popupVars, lineVars, deckVars>>

Answer ==
  /\ highlighter = "asked" /\ highlighter' = "answered" /\ reply' = deck
  /\ UNCHANGED <<pageVars, popupVars, known, painted, rebuildTimer, observing, active, deckVars>>

Receive ==
  /\ highlighter = "answered" /\ highlighter' = "listening"
  /\ known' = reply /\ reply' = {} /\ Rebuild(reply) /\ observing' = TRUE
  /\ UNCHANGED <<pageVars, popupVars, rebuildTimer, active, deckVars>>

AskFails ==
  /\ highlighter = "asked" /\ highlighter' = "failed"
  /\ UNCHANGED <<pageVars, popupVars, reply, known, painted, rebuildTimer, observing, active,
                 deckVars>>

\* The page refills its feed: the old nodes take their ranges with them.
Refill ==
  /\ spent.refills < MaxRefills /\ spent' = [spent EXCEPT !.refills = @ + 1]
  /\ page' = [page EXCEPT !["feed"] = IF @ = <<>> THEN Feed ELSE <<>>]
  /\ painted' = {r \in painted : r[1] # "feed"}
  /\ rebuildTimer' = (rebuildTimer \/ observing)
  /\ UNCHANGED <<on, dictionary, popupVars, highlighter, reply, known, observing, active, deck,
                 backup, backupDue, adding>>

RebuildFires ==
  /\ rebuildTimer /\ rebuildTimer' = FALSE /\ Rebuild(known)
  /\ UNCHANGED <<pageVars, popupVars, highlighter, reply, known, observing, active, deckVars>>

-----------------------------------------------------------------------------
(* The switch.                                                             *)

SwitchOff ==
  /\ on /\ on' = FALSE
  /\ ForceHide
  /\ active' = FALSE /\ observing' = FALSE /\ rebuildTimer' = FALSE /\ painted' = {}
  /\ UNCHANGED <<page, dictionary, mouse, hoverTimer, hideTimer, wasOverPopup, highlighter,
                 reply, known, deckVars>>

\* A hover from before the switch-off is over by then: it takes 60 ms.
SwitchOn ==
  /\ ~on /\ on' = TRUE /\ hoverTimer = None
  /\ dictionary' = IF dictionary = "none" THEN "loading" ELSE dictionary
  /\ active' = TRUE /\ observing' = (highlighter = "listening")
  /\ painted' = IF dictionary # "ready" THEN {} ELSE Rebuilt(known)
  /\ UNCHANGED <<page, popupVars, highlighter, reply, known, rebuildTimer, deckVars>>

-----------------------------------------------------------------------------
(* The deck, in the background.                                            *)

Changed(words) ==
  /\ Patient => highlighter # "answered"
  /\ spent.changes < MaxChanges /\ spent' = [spent EXCEPT !.changes = @ + 1]
  /\ deck' = words /\ backupDue' = TRUE

\* In another tab, on the options page, or by a sync.
ChangeElsewhere(w) ==
  /\ Patient => adding # w
  /\ Changed(IF w \in deck THEN deck \ {w} ELSE deck \cup {w})
  /\ UNCHANGED <<pageVars, popupVars, lineVars, backup, adding>>

\* The popup's "Add".
AddWord(w) ==
  /\ popup # None /\ w \in ToSet(popup.entries) /\ w \notin deck /\ adding = None
  /\ adding' = w /\ Changed(deck \cup {w})
  /\ UNCHANGED <<pageVars, popupVars, lineVars, backup>>

SrsSequenceAdded ==
  /\ adding # None /\ adding' = None
  /\ known' = known \cup {adding}
  /\ IF adding \in known THEN UNCHANGED painted ELSE Rebuild(known')
  /\ UNCHANGED <<pageVars, popupVars, highlighter, reply, rebuildTimer, observing, active,
                 deck, backup, backupDue, spent>>

\* An empty deck is not copied: it is taken for a store that was wiped. The page that
\* listens adopts the words it is told and repaints if they are others.
WriteCardsBackup ==
  /\ backupDue /\ backupDue' = FALSE
  /\ backup' = IF deck = {} THEN backup ELSE deck
  /\ IF deck # {} /\ highlighter = "listening" /\ deck # known
     THEN known' = deck /\ Rebuild(deck)
     ELSE UNCHANGED <<known, painted>>
  /\ UNCHANGED <<pageVars, popupVars, highlighter, reply, rebuildTimer, observing, active,
                 deck, adding, spent>>

-----------------------------------------------------------------------------
Mouse ==
  \/ \E p \in Spots \cup {Blank} : MoveTo(p)
  \/ MoveOverPopup \/ Leave \/ Escape
  \/ \E key \in DOMAIN Groups : Select(key)

Switch == SwitchOn \/ SwitchOff

Page == Load \/ LoadFails \/ Answer \/ Receive \/ AskFails \/ Refill \/ RebuildFires

Background ==
  \/ \E w \in Words : ChangeElsewhere(w) \/ AddWord(w)
  \/ SrsSequenceAdded \/ WriteCardsBackup

Next == Mouse \/ HandleHover \/ HideFires \/ Switch \/ Page \/ Background

\* Timers fire.
Spec == Init /\ [][Next]_vars /\ WF_vars(HandleHover) /\ WF_vars(HideFires)

-----------------------------------------------------------------------------
(* Properties.                                                             *)

\* Nothing stays behind: with the popup hidden no word is highlighted and none
\* remembered, since a remembered word would not be shown again; and while lookups
\* are switched off the page shows no popup and no underline, whatever was under way.
NothingLeftBehind ==
  /\ popup = None => mark = None /\ lastLookedUp = None
  /\ ~on => popup = None /\ painted = {}

\* A text is a word if the rules lead from it to a key of the index that has entries.
OneRule(f, s) == {Form(r, f) : r \in {q \in ToSet(Rules) : Fits(q, f, s)}}

Reach(s) ==
  LET reach[k \in 0..MaxDepth] ==
        IF k = 0 THEN {s} ELSE reach[k - 1] \cup UNION {OneRule(f, s) : f \in reach[k - 1]}
  IN  reach[MaxDepth]

IsWordForm(s) == \E f \in Reach(s) : Lookup(f) # <<>>

\* lookup.rs:180: headwords are wholly Japanese, and so is what the rules take away.
WhollyJapanese ==
  /\ \A key \in DOMAIN Groups : Groups[key] # <<>> => key \in Seq(Japanese)
  /\ \A i \in DOMAIN Rules : Rules[i].in \in Seq(Japanese)

\* The widths of the words that begin at the character under the mouse, or at the one
\* before it. After the last character of a word the mouse is still on the word.
Widths(a, p) ==
  LET n == Utf16ToCodePoint(a, p)
      here == IF n < Len(a) /\ a[n + 1] \in Japanese THEN n ELSE n - 1
  IN  {Len(s) : s \in {t \in {Prefix(From(a, i), Min2(k, Len(a) - i)) :
                                i \in {here - 1, here} \cap Nat, k \in 1..MaxScan} : IsWordForm(t)}}

Longest == {[text |-> a, spot |-> p, widths |-> Widths(a, p)] : a \in Articles, p \in Spots}

\* When no timer is pending, what a hover has put in the popup is the word under the
\* mouse, its highlight is that word's place in the text, and no longer word begins
\* there or one character earlier, whatever its inflection.
PopupShowsHovered ==
  (/\ on /\ popup # None /\ popup.by = "hover"
   /\ mouse \in Spots \cup {Blank} /\ hoverTimer = None /\ ~hideTimer) =>
      /\ \E hit \in {At(mouse)} :
           /\ hit # None /\ Headword[popup.entries[1]] = Shown(hit)
           /\ mark = [start |-> hit.start, end |-> hit.end]
      /\ LET word == SubSeq(page["article"], Utf16ToCodePoint(page["article"], mark.start) + 1,
                            Utf16ToCodePoint(page["article"], mark.end))
             longest == CHOOSE l \in Longest : l.text = page["article"] /\ l.spot = mouse
         IN  IsWordForm(word) /\ Len(word) = Max(longest.widths)

\* The places of a text where the scan starts to look: its beginning, after a match, and
\* after a character no match begins with.
AreStops(stops, s) ==
  /\ stops \subseteq 0..Len(s) /\ 0 \in stops
  /\ \A i \in stops \ {Len(s)} :
       LET next == i + Consumed(MatchFrom(s, i))
       IN  next \in stops /\ \A j \in stops : j > i => j >= next

Stops(s) == CHOOSE stops \in SUBSET (0..Len(s)) : AreStops(stops, s)

\* What should be underlined: every word of the deck where the page has it, as the
\* hover lookup reads the text from such a place.
ExpectedIn(s, words) ==
  {[start |-> Units(Prefix(s, i)), len |-> Units(SubSeq(s, i + 1, i + MatchFrom(s, i).len))] :
     i \in {j \in Stops(s) \ {Len(s)} : IsKnown(MatchFrom(s, j), words)}}

Expected ==
  {[text |-> s, words |-> k, ranges |-> ExpectedIn(s, k)] : s \in Texts, k \in SUBSET Words}

\* With nothing pending, the underlines on the page are exactly those of the words in
\* the deck: across refills of the page, changes of the deck from anywhere, and the
\* switch. A deck emptied to the last word is the exception cards-backup.ts:43 makes.
UnderlinesFollowDeck ==
  on /\ highlighter = "listening" /\ ~rebuildTimer /\ ~backupDue /\ adding = None /\ deck # {} =>
    painted = OnPage(Expected, deck)

\* A popup a hover has opened goes away once the mouse rests on blank space.
PopupGoesAway ==
  on /\ mouse = Blank /\ popup # None /\ popup.by = "hover"
    ~> \/ popup = None \/ mouse # Blank \/ popup.by # "hover"
=============================================================================
