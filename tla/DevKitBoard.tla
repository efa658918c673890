---------------------------- MODULE DevKitBoard ----------------------------
(***************************************************************************)
(* The board's C interface: initIoTDevKit, which constructs and            *)
(* initialises every sensor and then the WiFi, and the two LEDs that       *)
(* invokeDevKitPeripheral, called from the sketch's loop, makes blink.     *)
(* Time passes in quarters of a second and is kept as the time since the   *)
(* start of a blink; a loop takes at most MaxGap of them.                  *)
(***************************************************************************)
EXTENDS Integers, Sequences, FiniteSets

CONSTANTS BoardCalls,   \* bound: calls of the LED functions
          BoardFaults,  \* bound: parts of the board whose init fails
          MaxGap        \* bound: quarters of a second between two loops

ASSUME GapIsEnough == MaxGap \in Nat /\ MaxGap >= 2

VARIABLES initAt,       \* parts of the board initIoTDevKit has been through
          initResult,   \* what initIoTDevKit returned, or NotReturned
          works,        \* the parts whose own init succeeded
          rgb,          \* blinkRGBLEDTime, time since blinkRGBLEDTimeStart, the colour shown
          user,         \* the same for the user LED, with userLEDStat and the pin
          boardCalls

boardVars == <<initAt, initResult, works, rgb, user, boardCalls>>

\* In the order of initIoTDevKit, with the results of a failed construction.
Parts == <<"i2c", "LSM6DSL", "HTS221", "LIS2MDL", "IrDA", "LPS22HB", "WiFi">>
PartFailed == <<-101, -102, -103, -104, -105, -106, -100>>
NotReturned == 1000

Infinite == 1000        \* 0x7fffffffffffffff: more than any run of the board
Dark == -1              \* no colour
Colours == 3

BoardInit ==
    /\ initAt = 0 /\ initResult = NotReturned /\ works = {}
    /\ rgb = [time |-> -1, since |-> 0, colour |-> 0, shown |-> Dark]
    /\ user = [time |-> -1, since |-> 0, stat |-> FALSE, lit |-> FALSE]
    /\ boardCalls = 0

\* initWiFi returns a bool, so its -100 becomes 1.
initWiFi(connected) == IF connected THEN 0 ELSE 1

\* One part of initIoTDevKit: a part that cannot be constructed ends it, but
\* the result of the part's own init is not looked at.
InitPart ==
    /\ initResult = NotReturned
    /\ initAt' = initAt + 1
    /\ LET part == Parts[initAt + 1]
       IN  \/ /\ part # "WiFi"
              /\ initResult' = PartFailed[initAt + 1]
              /\ UNCHANGED works
           \/ /\ part # "WiFi"
              /\ \/ works' = works \cup {part}
                 \/ initAt - Cardinality(works) < BoardFaults /\ works' = works
              /\ UNCHANGED initResult
           \/ /\ part = "WiFi"
              /\ \E connected \in BOOLEAN :
                    /\ initResult' = initWiFi(connected)
                    /\ works' = IF connected THEN works \cup {part} ELSE works
    /\ UNCHANGED <<rgb, user, boardCalls>>

\* The sketch goes on to the LEDs when the board is initialised.
LedCall ==
    /\ initResult = 0
    /\ boardCalls < BoardCalls /\ boardCalls' = boardCalls + 1
    /\ UNCHANGED <<initAt, initResult, works>>

turnOnUserLED == LedCall /\ user' = [user EXCEPT !.lit = TRUE] /\ UNCHANGED rgb
turnOffUserLED == LedCall /\ user' = [user EXCEPT !.lit = FALSE] /\ UNCHANGED rgb
turnOnRGBLED == LedCall /\ rgb' = [rgb EXCEPT !.shown = 0] /\ UNCHANGED user
turnOffRGBLED == LedCall /\ rgb' = [rgb EXCEPT !.shown = Dark] /\ UNCHANGED user

startBlinkDevKitUserLED(duration) ==
    /\ LedCall
    /\ user' = [time |-> duration, since |-> 0, stat |-> TRUE, lit |-> TRUE]
    /\ UNCHANGED rgb
startBlinkDevKitRGBLED(duration) ==
    /\ LedCall
    /\ rgb' = [time |-> duration, since |-> 0, colour |-> 0, shown |-> 0]
    /\ UNCHANGED user

Minus(time, ms) == IF time = Infinite THEN Infinite ELSE time - ms

\* The colours come round again.
NextColour == (rgb.colour + 1) % Colours

_blinkRGBLED ==
    IF rgb.time <= 0 \/ rgb.since < 2 THEN rgb
    ELSE LET left == Minus(rgb.time, rgb.since)
         IN  IF left <= 0 THEN [rgb EXCEPT !.time = left, !.colour = NextColour, !.shown = Dark]
             ELSE [time |-> left, since |-> 0, colour |-> NextColour, shown |-> NextColour]

\* The end is decided by the time left for the other LED.
_blinkUserLED(rgbTime) ==
    IF user.time < 0 \/ user.since < 2 THEN user
    ELSE LET left == Minus(user.time, user.since)
         IN  IF rgbTime <= 0 THEN [user EXCEPT !.time = left, !.stat = ~@, !.lit = FALSE]
             ELSE [time |-> left, since |-> 0, stat |-> ~user.stat, lit |-> ~user.stat]

invokeDevKitPeripheral ==
    /\ initResult = 0
    /\ rgb' = _blinkRGBLED
    /\ user' = _blinkUserLED(_blinkRGBLED.time)
    /\ UNCHANGED <<initAt, initResult, works, boardCalls>>

\* SystemTickCounterRead moves on.
Later(led) == [led EXCEPT !.since = IF @ < MaxGap THEN @ + 1 ELSE @]
QuarterSecond ==
    /\ initResult = 0
    /\ rgb' = Later(rgb) /\ user' = Later(user)
    /\ UNCHANGED <<initAt, initResult, works, boardCalls>>

BoardNext ==
    \/ InitPart
    \/ turnOnUserLED \/ turnOffUserLED \/ turnOnRGBLED \/ turnOffRGBLED
    \/ \E duration \in {0, 1, 5, Infinite} :
           startBlinkDevKitUserLED(duration) \/ startBlinkDevKitRGBLED(duration)
    \/ invokeDevKitPeripheral
    \/ QuarterSecond

BoardSpec ==
    /\ BoardInit /\ [][BoardNext]_boardVars
    /\ WF_boardVars(invokeDevKitPeripheral) /\ WF_boardVars(QuarterSecond)

(* Types.                                                                  *)
BoardTypeOK ==
    /\ initAt \in 0 .. 7 /\ works \subseteq { Parts[i] : i \in 1 .. 7 }
    /\ initResult \in {NotReturned, 0, 1} \cup { PartFailed[i] : i \in 1 .. 7 }
    /\ rgb \in [time : -MaxGap .. Infinite, since : 0 .. MaxGap,
                colour : 0 .. Colours - 1, shown : Dark .. Colours - 1]
    /\ user \in [time : -MaxGap .. Infinite, since : 0 .. MaxGap, stat : BOOLEAN, lit : BOOLEAN]

(* The RGB LED that was started to blink for a limited time goes dark, for *)
(* as long as the sketch keeps calling invokeDevKitPeripheral and does not *)
(* start it again for ever or for no time at all.                          *)
RGBBlinkEnds ==
    (rgb.time \in 1 .. Infinite - 1) ~> (rgb.shown = Dark \/ rgb.time \in {0, Infinite})

\* initIoTDevKit returns when it has been through every part.
BoardInv == BoardTypeOK /\ (initResult = NotReturned => initAt < 7)

=============================================================================
