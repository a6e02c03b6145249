---------------------------- MODULE HookService ----------------------------
(***************************************************************************)
(* What hooks promise a driver.  An action runs only for a hook that is    *)
(* on, and only if its time is up or, of a breakpoint hook, while a hit is *)
(* handled and, unless an action has let the target go, with the target    *)
(* where the hook's place is.  One action runs at a time, and a one-shot   *)
(* hook's is over and done with.  When the service closes, by a failing    *)
(* action for instance, nothing runs any more.                             *)
(***************************************************************************)
EXTENDS Naturals, Sequences

CONSTANTS
  Places,    \* where hooks may be
  Known,     \* those of them that are really somewhere
  NoPlace,
  MaxHooks

VARIABLES
  book,      \* the hooks, in the order in which they were registered
  acting,    \* the hook whose action runs, or 0
  hit,       \* a hit is handled
  place,     \* where the target has stood since then, if it still does
  closed     \* no action will run any more

vars == <<book, acting, hit, place, closed>>

Init == book = <<>> /\ acting = 0 /\ hit = FALSE /\ place = NoPlace /\ closed = FALSE

Fresh(kind, loc, repeat) ==
  [kind |-> kind, loc |-> loc, repeat |-> repeat, on |-> TRUE, due |-> FALSE, used |-> FALSE]

Register ==
  /\ ~closed /\ Len(book) < MaxHooks
  /\ \E kind \in {"T", "B"}, loc \in Places \cup {NoPlace}, repeat \in BOOLEAN :
       book' = Append(book, Fresh(kind, loc, repeat))
  /\ UNCHANGED <<acting, hit, place, closed>>

SwitchOff == \E k \in DOMAIN book : book' = [book EXCEPT ![k].on = FALSE]
SwitchOn  == \E k \in DOMAIN book : book' = [book EXCEPT ![k].on = TRUE]

Switch ==
  /\ ~closed /\ (SwitchOff \/ SwitchOn)
  /\ UNCHANGED <<acting, hit, place, closed>>

\* the time of a timed hook is up
TimePasses ==
  /\ \E k \in DOMAIN book : book[k].kind = "T" /\ book' = [book EXCEPT ![k].due = TRUE]
  /\ UNCHANGED <<acting, hit, place, closed>>

Hit ==
  /\ ~closed /\ ~hit /\ acting = 0
  /\ hit' = TRUE /\ place' \in Places
  /\ UNCHANGED <<book, acting, closed>>

TimeIsUp(h) == h.kind = "T" /\ h.due

IsReached(h) ==
  /\ h.kind = "B" /\ hit
  /\ h.loc \in Known /\ place # NoPlace => place = h.loc
  /\ h.repeat \/ ~h.used

Run ==
  /\ ~closed /\ acting = 0
  /\ \E k \in DOMAIN book :
       /\ book[k].on /\ (TimeIsUp(book[k]) \/ IsReached(book[k]))
       /\ acting' = k /\ book' = [book EXCEPT ![k].used = TRUE]
  /\ UNCHANGED <<hit, place, closed>>

Done ==
  /\ acting # 0 /\ acting' = 0
  /\ LET h == book[acting]
     IN book' = IF ~h.repeat THEN [book EXCEPT ![acting].on = FALSE]
                ELSE IF h.kind = "T" THEN [book EXCEPT ![acting].due = FALSE]
                ELSE book
  /\ UNCHANGED <<hit, place, closed>>

\* an action lets go of the target in the middle of a hit
LetGo ==
  /\ acting # 0 /\ place' = NoPlace
  /\ UNCHANGED <<book, acting, hit, closed>>

HitIsHandled ==
  /\ hit /\ acting = 0
  /\ hit' = FALSE /\ place' = NoPlace
  /\ UNCHANGED <<book, acting, closed>>

\* a kill that fails has switched its hook off
Close ==
  /\ closed' = TRUE /\ acting' = 0 /\ hit' = FALSE /\ place' = NoPlace
  /\ SwitchOff \/ UNCHANGED book

Next ==
  \/ Register \/ Switch \/ TimePasses \/ Hit \/ Run \/ Done \/ LetGo \/ HitIsHandled \/ Close

Spec == Init /\ [][Next]_vars
=============================================================================
