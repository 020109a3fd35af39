------------------------------- MODULE Loader -------------------------------
(***************************************************************************)
(* The loader: UIViewController.hud is one static JGProgressHUD, and every *)
(* controller's showLoader(_:) shows or dismisses that same object.        *)
(*                                                                         *)
(* Showing and dismissing are animated.  A show is ignored while the HUD   *)
(* is in any view; a dismiss that meets an animation is remembered, and    *)
(* carried out when the HUD has appeared.                                  *)
(***************************************************************************)
CONSTANT NoView     \* the target view of a HUD that is not shown

Phases == {"hidden", "showing", "shown", "hiding"}

\* view: _targetView; phase: _transitioning and in which direction; late:
\* _dismissAfterTransitionFinished.
Hidden == [view |-> NoView, phase |-> "hidden", late |-> FALSE]

Huds(views) ==
    {h \in [view : views \cup {NoView}, phase : Phases, late : BOOLEAN] :
        /\ (h.view = NoView) <=> (h.phase = "hidden")
        /\ h.late => h.phase \in {"showing", "hiding"}}

\* A variant with a bug, for the mutation runs: the dismiss is not remembered.
forgetsDismiss(h) == IF h.phase = "shown" THEN [h EXCEPT !.phase = "hiding"] ELSE h

\* showInView:animated:
show(h, view) ==
    IF h.phase = "hidden" THEN [view |-> view, phase |-> "showing", late |-> FALSE] ELSE h

\* dismissAnimated:
dismiss(h) ==
    CASE h.phase \in {"showing", "hiding"} -> [h EXCEPT !.late = TRUE]
      [] h.phase = "shown"  -> [h EXCEPT !.phase = "hiding"]
      [] h.phase = "hidden" -> h

\* The animation ends: cleanUpAfterPresentation, cleanUpAfterDismissal.
animated(h) ==
    CASE h.phase = "showing" /\ h.late  -> [h EXCEPT !.phase = "hiding", !.late = FALSE]
      [] h.phase = "showing" /\ ~h.late -> [h EXCEPT !.phase = "shown"]
      [] h.phase = "hiding" -> Hidden

\* The view is freed: _targetView, a weak reference, is nil, and a later show
\* is not ignored.  An animation that is running ends first.
freed(h) == IF h.phase \in {"showing", "hiding"} THEN h ELSE Hidden

Animating(h) == h.phase \in {"showing", "hiding"}

\* Will the HUD stay until somebody dismisses it?
Stays(h) == h.phase \in {"showing", "shown"} /\ ~h.late

\* While the HUD is shown in a view it takes the touches meant for that view
\* (interactionType is JGProgressHUDInteractionTypeBlockAllTouches); a view
\* under animation takes none.
Blocks(h, view) == h.phase = "shown" /\ h.view = view
=============================================================================
