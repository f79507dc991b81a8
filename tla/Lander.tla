-------------------------------- MODULE Lander --------------------------------
(***************************************************************************)
(* The game of os/apps/retro_games/retro_games.c, one frame a slice: the   *)
(* integer physics of height, speed and fuel, with the widths that the     *)
(* fields have.  The horizontal position, which only decides whether the   *)
(* craft comes down on the pad, and the buttons of os/apps/retro_games/    *)
(* input.c, pressed on the page or debounced from a pin, are inputs; the   *)
(* score is left out.                                                      *)
(* Definitions named Bad... are faulty variants of the one that follows.   *)
(***************************************************************************)
EXTENDS Integers, FiniteSets

CONSTANTS
    Signed,    \* 2^15: an int16_t is in -Signed .. Signed - 1
    Unsigned,  \* 2^16: an uint16_t is in 0 .. Unsigned - 1
    StartY,    \* the height at which the craft starts; y grows downwards
    Ground,    \* the height of the pad, less the craft
    FullTank,  \* the fuel at the start
    SafeSpeed  \* landing at this speed and above is a crash

ASSUME LanderAssumption ==
    /\ {Signed, Unsigned, FullTank, SafeSpeed} \subseteq Nat \ {0}
    /\ FullTank < Unsigned
    /\ StartY < Ground /\ {StartY, Ground} \subseteq 0 .. (Signed - 1)

VARIABLES
    y, vy, fuel, status,  \* the fields of s_lander
    running               \* s_running
landerVars == <<y, vy, fuel, status, running>>

Buttons == {"up", "left", "right", "a", "b"}

Int16(n) == ((n + Signed) % (2 * Signed)) - Signed
-----------------------------------------------------------------------------
(* reset_lander.                                                           *)
ResetLander ==
    /\ y' = StartY /\ vy' = 0
    /\ fuel' = FullTank
    /\ status' = "playing"

LanderInit ==
    /\ y = StartY /\ vy = 0
    /\ fuel = FullTank
    /\ status = "playing"
    /\ running = FALSE

Thrusts(pressed) == pressed \cap {"up", "a"} # {}

(* The units burnt in a frame: one for the main engine, one to each side.  *)
Burnt(pressed) ==
    (IF Thrusts(pressed) THEN 1 ELSE 0) + Cardinality(pressed \cap {"left", "right"})

BadTank(pressed) == (fuel - Burnt(pressed)) % Unsigned  \* an empty one too

(* There is a look at the tank before the first unit, not at each.         *)
Tank(pressed) == IF fuel > 0 THEN (fuel - Burnt(pressed)) % Unsigned ELSE fuel

Speed(pressed) ==
    Int16(vy + 1 - (IF fuel > 0 /\ Thrusts(pressed) THEN 2 ELSE 0))

Landed(pressed, onPad) ==
    IF onPad /\ Speed(pressed) < SafeSpeed THEN "landed" ELSE "crashed"

(* retro_games_task while the craft flies.                                 *)
Fly(pressed, onPad) ==
    /\ running /\ status = "playing"
    /\ vy' = Speed(pressed)
    /\ fuel' = Tank(pressed)
    /\ y' = Int16(y + vy')
    /\ status' = IF y' >= Ground THEN Landed(pressed, onPad) ELSE "playing"
    /\ UNCHANGED running

(* retro_games_task when the flight is over.                               *)
PlayAgain(pressed) ==
    /\ running /\ status # "playing"
    /\ pressed \cap {"a", "b"} # {}
    /\ ResetLander
    /\ UNCHANGED running

(* retro_games_start and retro_games_stop.                                 *)
StartGame == running' = TRUE /\ ResetLander
StopGame == running /\ running' = FALSE /\ UNCHANGED <<y, vy, fuel, status>>

LanderNext ==
    \/ \E pressed \in SUBSET Buttons :
          PlayAgain(pressed) \/ \E onPad \in BOOLEAN : Fly(pressed, onPad)
    \/ StartGame \/ StopGame
-----------------------------------------------------------------------------
(* In flight the tank does not fill, except that several buttons pressed   *)
(* on the last unit or two take more than there is and leave it full; and  *)
(* the flight ends only on the way down, except that a craft that climbs   *)
(* past the top of an int16_t comes out below the ground                   *)
(* (retro_games_task; "Remaining fuel units", docs/HOST_PROTOCOL.md:118).  *)
FlightSound ==
    [][status = "playing" /\ <<y', vy', fuel'>> # <<StartY, 0, FullTank>> =>
          /\ fuel' <= fuel \/ fuel \in {1, 2}
          /\ status' = "playing" \/ vy' > 0 \/ y' # y + vy']_landerVars
=============================================================================
