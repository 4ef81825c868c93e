--------------------------- MODULE UnsavedChanges ---------------------------
(***************************************************************************)
(* The question before a page with unsaved changes is left                 *)
(* (unsaved-changes.ts).  A form that gets unsaved changes installs a      *)
(* guard and removes it when it is saved; several forms of a page each     *)
(* have their own, and they know nothing of each other: a guard wraps the  *)
(* methods it finds, be they the browser's or another guard's.             *)
(*                                                                         *)
(* Modelled of the browser: whether it has the Navigation API, in which    *)
(* order listeners are called, and that a prevented event keeps the page.  *)
(* A leave is one step with all its questions; the answers are chosen.     *)
(***************************************************************************)
EXTENDS Integers, Sequences, FiniteSets
Methods == INSTANCE SequencesExt

CONSTANTS
  LastForm, \* number of forms on a page
  MaxGuards \* bound on the guards a document sees

ASSUME FormsAssumption == LastForm \in Nat /\ MaxGuards \in Nat

\* Forms of the page, in their order on it.
Forms == 1 .. LastForm

VARIABLE forms
\* The fields of forms:
\*   navigation, hasRouter   what the browser and the page have
\*   guards    installed, in the order of their installation
\*   form      of each guard
\*   made      how many there have been
\*   leaving   guards whose question was answered with yes
\*   router, push   the methods now: the guards that a call runs through, the one that
\*             wrapped last first; of the original method none
\*   origR, origP   the methods that each guard found
\*   straight  no form was saved while one that had changes later still had them
\*   last      the last leave: [open, asked, left, torn]

FreshPage(navigation, hasRouter) ==
  [navigation |-> navigation, hasRouter |-> hasRouter, guards |-> <<>>, made |-> 0,
   form |-> [g \in 1 .. MaxGuards |-> 0], leaving |-> {},
   origR |-> [g \in 1 .. MaxGuards |-> <<>>], origP |-> [g \in 1 .. MaxGuards |-> <<>>],
   router |-> <<>>, push |-> <<>>, straight |-> TRUE,
   last |-> [open |-> {}, asked |-> {}, left |-> FALSE, torn |-> FALSE]]

FormsInit == \E n, r \in BOOLEAN : forms = FreshPage(n, r)

-----------------------------------------------------------------------------
(* Installing and removing.                                                *)

Installed(p) == Methods!ToSet(p.guards)

\* installUnsavedChangesGuard
Install(f) ==
  LET g == forms.made + 1 IN
  /\ g <= MaxGuards /\ \A h \in Installed(forms) : forms.form[h] # f
  /\ forms' = [forms EXCEPT !.made = g, !.form[g] = f, !.guards = Append(@, g),
                 !.origR[g] = forms.router, !.router = IF forms.hasRouter THEN <<g>> \o @ ELSE @,
                 !.origP[g] = forms.push, !.push = IF forms.navigation THEN @ ELSE <<g>> \o @]

\* Wrong variant: what was found is put back whoever wrapped it since.
PutBackAlways(p, g) == IF p.navigation THEN p.push ELSE p.origP[g]

\* pushState is put back by the guard that wrapped it last.
PutBack(p, g) == IF p.push # <<>> /\ Head(p.push) = g THEN p.origP[g] ELSE p.push

\* What a guard does when it is removed; the router's method is put back whoever wrapped
\* it since.  Where a page has no router, or pushState is not wrapped, both are empty.
RemoveGuard(p, g) ==
  LET place == CHOOSE i \in DOMAIN p.guards : p.guards[i] = g IN
  [p EXCEPT !.guards = Methods!RemoveAt(@, place), !.push = PutBack(p, g), !.router = p.origR[g]]

\* The changes are saved or taken back.
SaveForm(g) ==
  forms' = [RemoveGuard(forms, g) EXCEPT !.straight = @ /\ g = Methods!Last(forms.guards)]

-----------------------------------------------------------------------------
(* Leaving.  Guards are consulted one after the other; 0 stands for the    *)
(* browser's own question, which all beforeunload listeners share.         *)

\* Guards that have not been told that the user leaves.
Unasked == Installed(forms) \ forms.leaving

\* Consulted by a push of the page's router, and the change of the history it makes.
OfPush == forms.router \o (IF forms.navigation THEN forms.guards ELSE forms.push)

\* A click on a link: the first guard prevents it, so that the others stay out of it,
\* and then leaves the document by itself; with no question the page's router goes on.
OfClick ==
  LET asking == {i \in DOMAIN forms.guards : forms.guards[i] \in Unasked} IN
  IF asking = {} THEN OfPush
  ELSE <<forms.guards[Methods!Min(asking)]>> \o (IF forms.navigation THEN forms.guards ELSE <<>>) \o <<0>>

\* Every guard asks, once, unless it was told; the browser asks if there is one left
\* that was not heard.  The first no ends it.
GatesBefore(gates, i) == {gates[j] : j \in 1 .. i - 1}

Asks(gates, i) ==
  /\ gates[i] \notin forms.leaving \cup GatesBefore(gates, i)
  /\ gates[i] = 0 => ~(Unasked \subseteq GatesBefore(gates, i))

Consult(yes, gates) ==
  LET asking == {i \in DOMAIN gates : Asks(gates, i)}
      noes == {i \in asking : gates[i] \notin yes}
      first == Methods!Min(noes)
  IN  IF noes = {} THEN [asked |-> {gates[i] : i \in asking}, no |-> 0]
      ELSE [asked |-> {gates[i] : i \in asking \cap 1 .. first},
            no |-> IF gates[first] = 0 THEN -1 ELSE gates[first]]

\* The form goes from the page, and its guard if it has one.
UnmountForm(p, f) ==
  LET Of == {g \in Installed(p) : p.form[g] = f} IN
  IF Of = {} THEN p ELSE RemoveGuard(p, CHOOSE g \in Of : TRUE)

\* The forms of the page go, in their order on it.
UnmountForms(p) ==
  LET after[f \in 0 .. LastForm] == IF f = 0 THEN p ELSE UnmountForm(after[f - 1], f)
  IN  after[LastForm]

\* A leave within the document, or out of it.  What was answered with yes is kept, even
\* if the page is then not left.
Leave(yes, c, document, torn) ==
  LET told == [forms EXCEPT !.leaving = @ \cup ((c.asked \cap yes) \ {0}),
                 !.last = [open |-> Unasked, asked |-> c.asked, left |-> c.no = 0, torn |-> torn]]
  IN
  forms' = IF c.no # 0 THEN told
           ELSE IF document THEN [FreshPage(forms.navigation, forms.hasRouter) EXCEPT !.last = told.last]
           ELSE UnmountForms(told)

Push(yes) == Leave(yes, Consult(yes, OfPush), FALSE, FALSE)

Click(yes) == Leave(yes, Consult(yes, OfClick), Unasked # {}, FALSE)

ReloadPage(yes) == Leave(yes, Consult(yes, <<0>>), TRUE, FALSE)

\* Without the Navigation API the address has changed already, and the guard that was
\* told no calls the pushState it found to put it back; that may be another's.
Back(yes) ==
  LET c == Consult(yes, forms.guards)
      back == IF forms.navigation \/ c.no = 0 THEN [asked |-> {}, no |-> 0]
              ELSE Consult(yes, forms.origP[c.no])
  IN  Leave(yes, [c EXCEPT !.asked = @ \cup back.asked], FALSE, back.no \notin c.asked \cup {0})

FormsNext ==
  \/ \E f \in Forms : Install(f)
  \/ \E g \in Installed(forms) : SaveForm(g)
  \/ \E yes \in SUBSET ((0 .. forms.made) \ forms.leaving) : Push(yes) \/ Click(yes) \/ ReloadPage(yes) \/ Back(yes)

FormsSpec == FormsInit /\ [][FormsNext]_forms

-----------------------------------------------------------------------------
(* Properties.                                                             *)

\* However a page is left, with whatever forms were changed and saved in whatever
\* order, the user has been asked for each form with unsaved changes and said yes,
\* in this leave or in one before it.  As long as forms are saved in the reverse order
\* of their first changes, nobody else asks, a refused step back keeps the address, and
\* one form asks exactly once.
LeavingIsAsked ==
  LET l == forms.last IN
  /\ l.left => l.open \subseteq l.asked \/ 0 \in l.asked
  /\ forms.straight =>
       /\ l.asked \subseteq l.open \cup {0} /\ ~l.torn
       /\ Cardinality(l.open) <= 1 => Cardinality(l.asked) = Cardinality(l.open)

-----------------------------------------------------------------------------
(* The inductive invariant the proof in BrowserProofs rests on.            *)

\* What the fields of forms can be.
Pages ==
  [navigation : BOOLEAN, hasRouter : BOOLEAN, guards : Seq(Nat), made : 0 .. MaxGuards,
   form : [1 .. MaxGuards -> Nat], leaving : SUBSET Nat,
   origR : [1 .. MaxGuards -> Seq(Nat)], origP : [1 .. MaxGuards -> Seq(Nat)],
   router : Seq(Nat), push : Seq(Nat), straight : BOOLEAN,
   last : [open : SUBSET Nat, asked : SUBSET Nat, left : BOOLEAN, torn : BOOLEAN]]

\* Each guard of a method goes on with what it found itself.
Wraps(p, orig, method) ==
  \A i \in DOMAIN method :
    method[i] \in 1 .. p.made /\ orig[method[i]] = SubSeq(method, i + 1, Len(method))

\* Guards are numbered in the order of their installation, and each is of a form.
GuardsOK(p) ==
  /\ \A i, j \in DOMAIN p.guards : i < j => p.guards[i] < p.guards[j]
  /\ \A g \in Installed(p) : g \in 1 .. p.made /\ p.form[g] \in Forms
  /\ \A g, h \in Installed(p) : p.form[g] = p.form[h] => g = h
  /\ 0 \notin p.leaving

\* Whatever order forms are saved in, no guard gets out of the way of pushState.
MethodsOK(p) ==
  /\ Wraps(p, p.origR, p.router) /\ Wraps(p, p.origP, p.push)
  /\ \A g \in 1 .. p.made : Wraps(p, p.origR, p.origR[g]) /\ Wraps(p, p.origP, p.origP[g])
  /\ ~p.hasRouter => p.router = <<>> /\ \A g \in 1 .. p.made : p.origR[g] = <<>>
  /\ p.navigation => p.push = <<>> /\ \A g \in 1 .. p.made : p.origP[g] = <<>>
  /\ ~p.navigation => Installed(p) \subseteq Methods!ToSet(p.push)

\* The guards of a method are those that are installed, the newest first, and beyond
\* them some that were told that the user leaves.
Stacked(p, method) ==
  /\ Len(p.guards) <= Len(method)
  /\ \A i \in DOMAIN method : IF i <= Len(p.guards) THEN method[i] = p.guards[Len(p.guards) + 1 - i]
                               ELSE method[i] \in p.leaving

StackOK(p) == p.straight =>
  (p.hasRouter => Stacked(p, p.router)) /\ (~p.navigation => Stacked(p, p.push))

FormsInv ==
  /\ forms \in Pages /\ GuardsOK(forms) /\ MethodsOK(forms) /\ StackOK(forms)
  /\ LeavingIsAsked
=============================================================================
