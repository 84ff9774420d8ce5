---------------------------- MODULE Calibration ----------------------------
(***************************************************************************)
(* The calibration of the touch panel (beagle_drivers/byd_touch/xyin/      *)
(* xyin.cpp): a matrix and an offset in fixed-point numbers take a point of*)
(* the digitiser to one of the screen, and are computed from three points  *)
(* of the screen that the user has been asked to touch.                    *)
(*                                                                         *)
(* The numbers have KShift binary places, 16 in the code, and screen and   *)
(* digitiser are as much smaller, so that the 64-bit products stay small.  *)
(* External: the program that draws the points, and the panel.             *)
(***************************************************************************)
EXTENDS Integers

CONSTANTS
    KShift,             \* 2 to the binary places
    Width, Height,      \* of the screen
    Panels,             \* [corner -> where the digitiser sees it], as the panels may be
    Default             \* the emergency values of DoCreate()

VARIABLES
    config,     \* iMachineConfig: iCalibration, iCalibrationSaved
    panel,      \* the panel that is there
    origin      \* of both: the emergency values, the panel's points, or nothing yet

calVars == <<config, panel, origin>>

Corners == {"iTl", "iBl", "iBr"}
Zeros == [iR11 |-> 0, iR12 |-> 0, iR21 |-> 0, iR22 |-> 0, iTx |-> 0, iTy |-> 0]

\* The division of C rounds towards zero.
Magnitude(n) == IF n < 0 THEN -n ELSE n
Quotient(n, d) ==
    IF (n < 0) = (d < 0) THEN Magnitude(n) \div Magnitude(d)
    ELSE -(Magnitude(n) \div Magnitude(d))

DigitiserToScreen(c, p) ==
    [x |-> (p.x * c.iR11 + p.y * c.iR21 + c.iTx) \div KShift,
     y |-> (p.x * c.iR12 + p.y * c.iR22 + c.iTy) \div KShift]

Determinant(c) == c.iR21 * c.iR12 - c.iR22 * c.iR11

\* Mutant: the offsets are added.
ScreenToDigitiser_Added(c, p) ==
    LET x == KShift * p.x + c.iTx
        y == KShift * p.y + c.iTy
    IN  [x |-> Quotient(x * c.iR22 - y * c.iR21, -Determinant(c)),
         y |-> Quotient(x * c.iR12 - y * c.iR11, Determinant(c))]
ScreenToDigitiser(c, p) ==
    LET x == KShift * p.x - c.iTx
        y == KShift * p.y - c.iTy
    IN  [x |-> Quotient(x * c.iR22 - y * c.iR21, -Determinant(c)),
         y |-> Quotient(x * c.iR12 - y * c.iR11, Determinant(c))]

CalibrationPoints ==
    LET left == Width \div 10
        top == Height \div 10
    IN  [iTl |-> [x |-> left, y |-> top],
         iBl |-> [x |-> left, y |-> Height - top],
         iBr |-> [x |-> Width - left, y |-> Height - top]]

\* The points on one line have no such matrix; the code divides by this.
Area(t) ==
    (t["iTl"].y - t["iBl"].y) * (t["iTl"].x - t["iBr"].x)
        - (t["iTl"].y - t["iBr"].y) * (t["iTl"].x - t["iBl"].x)

\* The row of the matrix, and the offset, that take the points t to the numbers n.
Fitted(t, n) ==
    LET along == (t["iTl"].y - t["iBl"].y) * (n["iTl"] - n["iBr"])
                    - (t["iTl"].y - t["iBr"].y) * (n["iTl"] - n["iBl"])
        across == (t["iTl"].x - t["iBr"].x) * (n["iBl"] - n["iBr"])
                    - (t["iBl"].x - t["iBr"].x) * (n["iTl"] - n["iBr"])
        below == (t["iBl"].y - t["iBr"].y) * (t["iTl"].x - t["iBr"].x)
                    - (t["iTl"].y - t["iBr"].y) * (t["iBl"].x - t["iBr"].x)
        one == Quotient(along * KShift, Area(t))
        two == Quotient(across * KShift, below)
    IN  [x |-> one, y |-> two, t |-> n["iTl"] * KShift - t["iTl"].x * one - t["iTl"].y * two]

-----------------------------------------------------------------------------
CalInit ==
    /\ config = [iCalibration |-> Default, iCalibrationSaved |-> Zeros]
    /\ panel \in Panels
    /\ origin = [iCalibration |-> "default", iCalibrationSaved |-> "nothing"]

\* The program passes the points as the screen coordinates that it was given.  Without a
\* determinant ScreenToDigitiser() divides by zero, which the kernel does not survive.
SetXYInputCalibration ==
    LET c == config.iCalibration
        seen == [k \in Corners |-> DigitiserToScreen(c, panel[k])]
        touched == [k \in Corners |-> ScreenToDigitiser(c, seen[k])]
        x == Fitted(touched, [k \in Corners |-> CalibrationPoints[k].x])
        y == Fitted(touched, [k \in Corners |-> CalibrationPoints[k].y])
    IN  /\ Determinant(c) # 0
        /\ config' = [config EXCEPT !.iCalibration =
                        [iR11 |-> x.x, iR12 |-> y.x, iR21 |-> x.y, iR22 |-> y.y,
                         iTx |-> x.t, iTy |-> y.t]]
        /\ origin' = [origin EXCEPT !.iCalibration = "panel"]
        /\ UNCHANGED panel

SaveXYInputCalibration ==
    /\ config' = [config EXCEPT !.iCalibrationSaved = config.iCalibration]
    /\ origin' = [origin EXCEPT !.iCalibrationSaved = origin.iCalibration]
    /\ UNCHANGED panel

\* The factory's values are nowhere set.
Restored(aType) ==
    IF aType = "ESaved" THEN [c |-> config.iCalibrationSaved, from |-> origin.iCalibrationSaved]
    ELSE [c |-> Zeros, from |-> "nothing"]
RestoreXYInputCalibration(aType) ==
    /\ config' = [config EXCEPT !.iCalibration = Restored(aType).c]
    /\ origin' = [origin EXCEPT !.iCalibration = Restored(aType).from]
    /\ UNCHANGED panel

CalNext ==
    \/ SetXYInputCalibration \/ SaveXYInputCalibration
    \/ \E aType \in {"EFactory", "ESaved"} : RestoreXYInputCalibration(aType)

CalSpec == CalInit /\ [][CalNext]_calVars
-----------------------------------------------------------------------------
(* Properties *)

\* However often the panel is calibrated, saved and restored: a matrix computed from its
\* points, restored ones too, takes them to where they were drawn, up to what rounding on
\* the way through the old one costs; and a matrix from which the next calibration cannot
\* be computed comes only from restoring what has never been stored.
PointsMap ==
    /\ origin.iCalibration # "nothing" => Determinant(config.iCalibration) # 0
    /\ origin.iCalibration = "panel" =>
          \A k \in Corners :
              LET p == DigitiserToScreen(config.iCalibration, panel[k])
              IN  /\ Magnitude(p.x - CalibrationPoints[k].x) <= 2
                  /\ Magnitude(p.y - CalibrationPoints[k].y) <= 2
=============================================================================
