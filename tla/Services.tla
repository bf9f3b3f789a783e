------------------------------ MODULE Services ------------------------------
(***************************************************************************)
(* The services of the API process, side by side: payments (extended),     *)
(* guardrails, recommendations, catalogue rows and reviews (instances).    *)
(* They share no table the modules model, so a behaviour is one of         *)
(* whichever component `focus` names, and the state graphs add up instead  *)
(* of multiplying.                                                         *)
(***************************************************************************)
EXTENDS Payments, Integers

CONSTANTS
  Null,                          \* no value; no room type: the branch-wide key
  RoomTypes, Prices,             \* room types and what they may cost
  Departments, GuardIds, Limits, \* of Guardrails
  RecIds, Answers,               \* of Recommendations
  RowIds, Columns, Values,       \* of Records
  Statuses, Available,
  ReviewIds, Hits                \* of Reviews

VARIABLES
  focus,
  guards, guDeleted, mapped, guReq, guRaced, owed,
  recs, price, recReq, decided, recRaced, recBroken,
  rows, rowReq, last, rowRaced,
  comment, sentiment, revReq, revEvents, connected, revBroken

guVars == <<guards, guDeleted, mapped, guReq, guRaced, owed>>
recVars == <<recs, price, recReq, decided, recRaced, recBroken>>
rowVars == <<rows, rowReq, last, rowRaced>>
revVars == <<comment, sentiment, revReq, revEvents, connected, revBroken>>

Gu == INSTANCE Guardrails WITH BranchWide <- Null,
        deleted <- guDeleted, req <- guReq, raced <- guRaced

Rec == INSTANCE Recommendations WITH NoPrice <- Null,
         req <- recReq, raced <- recRaced, broken <- recBroken

Rw == INSTANCE Records WITH req <- rowReq, raced <- rowRaced

Rev == INSTANCE Reviews WITH req <- revReq, events <- revEvents, broken <- revBroken

\* Prices and limits are DECIMALs of any sign, a comment has no fewer than no
\* words; a decision answered is one of three, another answers 400; ids of the
\* tables are UUIDs, so no two tables share one; rooms and tables start with a
\* status of theirs, and an attendance record has a clock-out.
ASSUME ServicesAssumption ==
  /\ Prices \subseteq Int /\ Limits \subseteq [min : Int, max : Int]
  /\ Answers \subseteq Rec!AllAnswers
  /\ RoomTypes \cap Departments = {} /\ Null \notin RoomTypes
  /\ Hits \subseteq Nat
  /\ Available \in Statuses /\ "clock_out" \in Columns

ServicesInit ==
  /\ focus \in {"payments", "guardrails", "recommendations", "records", "reviews"}
  /\ Init /\ Gu!Init /\ Rec!Init /\ Rw!Init /\ Rev!Init

ServicesNext ==
  \/ focus = "payments" /\ Next
       /\ UNCHANGED <<focus, guVars, recVars, rowVars, revVars>>
  \/ focus = "guardrails" /\ Gu!Next
       /\ UNCHANGED <<focus, vars, recVars, rowVars, revVars>>
  \/ focus = "recommendations" /\ Rec!Next
       /\ UNCHANGED <<focus, vars, guVars, rowVars, revVars>>
  \/ focus = "records" /\ Rw!Next
       /\ UNCHANGED <<focus, vars, guVars, recVars, revVars>>
  \/ focus = "reviews" /\ Rev!Next
       /\ UNCHANGED <<focus, vars, guVars, recVars, rowVars>>

ServicesSpec ==
  ServicesInit
    /\ [][ServicesNext]_<<focus, vars, guVars, recVars, rowVars, revVars>>

\* The components' properties, stated in their modules (those of Payments as they
\* are).
ServicesTypeOK == TypeOK /\ Gu!TypeOK /\ Rec!TypeOK /\ Rw!TypeOK /\ Rev!TypeOK
OneRowPerKey == Gu!OneRowPerKey
ClampedToGuard == Gu!ClampedToGuard
PriceFollowsDecision == Rec!PriceFollowsDecision
FieldsKept == Rw!FieldsKept
ClockedOutOnce == Rw!ClockedOutOnce
ToldAsStored == Rev!ToldAsStored
LabelFollowsWords == Rev!LabelFollowsWords
=============================================================================
