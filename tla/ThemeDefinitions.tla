--------------------------- MODULE ThemeDefinitions ---------------------------
(***************************************************************************)
(* What the core takes for a theme (validate_definition in                 *)
(* src/apps/desktop/src-tauri/src/themes.rs), and what the frontend, which *)
(* reads the same definition once more, takes for one                      *)
(* (src/packages/contracts/src/theme.ts).                                  *)
(*                                                                         *)
(* A definition has an id and maps some of the tokens to values.  Numbers  *)
(* are counted in thousandths.  A length or a duration is what its text    *)
(* was parsed to: [amount, unit]; a weight is a number or a word; a color  *)
(* is a word or the number of characters after its #; of a text only       *)
(* whether its characters are allowed and how long it is matters.          *)
(***************************************************************************)
EXTENDS Integers, Sequences

Thousandths(n) == 1000 * n

(* Token -> <<minimum, maximum, may be negative>>. *)
Spacings == {"unit", "xs", "sm", "md", "lg", "xl"}
Radii == {"radius", "radiusSm", "radiusMd", "radiusLg"}

LengthBounds == [t \in {"fontSize", "lineHeight", "letterSpacing"} \cup Spacings \cup Radii |->
  CASE t = "fontSize" -> <<Thousandths(8), Thousandths(72), FALSE>>
    [] t = "lineHeight" -> <<Thousandths(1), Thousandths(3), FALSE>>
    [] t = "letterSpacing" -> <<Thousandths(-4), Thousandths(16), TRUE>>
    [] t \in Spacings -> <<0, Thousandths(128), FALSE>>
    [] t \in Radii -> <<0, Thousandths(64), FALSE>>]

Between(low, n, high) == low <= n /\ n <= high

(* validate_optional_length *)
IsLength(value, bounds) ==
  LET minimum == bounds[1]
      maximum == bounds[2]
  IN /\ bounds[3] \/ value.amount >= 0
     /\ \/ value.unit \in {"", "px"} /\ Between(minimum, value.amount, maximum)
        \/ value.unit \in {"rem", "em"} /\ Between(minimum, 16 * value.amount, maximum)
        \/ value.unit = "%" /\ minimum >= 0 /\ Between(0, value.amount, Thousandths(100))

(* is_safe_duration: at most two seconds. *)
IsDuration(value) ==
  /\ value.unit \in {"ms", "s"}
  /\ Between(0, value.amount * (IF value.unit = "s" THEN 1000 ELSE 1), Thousandths(2000))

(* is_safe_color *)
IsColor(value) ==
  \/ value.word \in {"transparent", "currentColor"}
  \/ value.word = "#" /\ value.digits \in {3, 4, 6, 8}

IsWeight(value) ==
  \/ value.word \in {"normal", "bold"}
  \/ value.word = "" /\ Between(100, value.number, 900)

(* is_safe_text, is_safe_token and the characters of each kind of text. *)
IsText(value, maximum) == value.safe /\ Between(1, value.length, maximum)

ColorTokens ==
  {"background", "surface", "surfaceRaised", "text", "textMuted", "border", "primary",
   "secondary", "accent", "success", "warning", "danger", "focusRing"}

Shadows == {"none", "sm", "md", "lg", "level1", "level2", "level3"}

Durations == {"durationFast", "durationNormal", "durationSlow"}

Easings == {"linear", "ease", "ease-in", "ease-out", "ease-in-out"}

(* The value of a token, which is <<group, name>>. *)
IsValue(token, value) ==
  CASE token[1] = "colors" -> token[2] \in ColorTokens /\ IsColor(value)
    [] token = <<"typography", "fontFamily">> -> IsText(value, 128)
    [] token = <<"typography", "fontWeight">> -> IsWeight(value)
    [] token[1] = "typography" /\ token[2] \in DOMAIN LengthBounds ->
         IsLength(value, LengthBounds[token[2]])
    [] token[1] = "spacing" -> token[2] \in Spacings /\ IsLength(value, LengthBounds[token[2]])
    [] token[1] = "shape" -> token[2] \in Radii /\ IsLength(value, LengthBounds[token[2]])
    [] token[1] = "elevation" -> token[2] \in Shadows /\ IsText(value, 128)
    [] token[1] = "motion" /\ token[2] \in Durations -> IsDuration(value)
    [] token = <<"motion", "easing">> -> value.word \in Easings
    [] OTHER -> FALSE

(* validate_definition.  An id has two or more parts. *)
ValidDefinition(d) ==
  /\ d.parts >= 2
  /\ \A token \in DOMAIN d.tokens : IsValue(token, d.tokens[token])

-----------------------------------------------------------------------------
(* The frontend. *)
FrontendLength(value, bounds) ==
  /\ ~bounds[3] => value.amount >= 0
  /\ CASE value.unit \in {"", "px"} -> value.amount >= bounds[1] /\ value.amount <= bounds[2]
       [] value.unit \in {"rem", "em"} ->
            16 * value.amount >= bounds[1] /\ 16 * value.amount <= bounds[2]
       [] OTHER -> /\ bounds[1] >= 0 /\ value.unit = "%"
                   /\ value.amount >= 0 /\ value.amount <= Thousandths(100)

FrontendDuration(value) ==
  LET milliseconds == IF value.unit = "s" THEN 1000 * value.amount ELSE value.amount
  IN value.unit \in {"ms", "s"} /\ milliseconds >= 0 /\ milliseconds <= Thousandths(2000)

FrontendColor(value) ==
  CASE value.word = "#" -> value.digits \in {3, 4} \/ value.digits = 6 \/ value.digits = 6 + 2
    [] OTHER -> value.word \in {"transparent", "currentColor", "Transparent", "currentcolor"}
=============================================================================
