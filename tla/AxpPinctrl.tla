----------------------------- MODULE AxpPinctrl -----------------------------
(***************************************************************************)
(* The pin controller, axp-gpio.c: how a PMIC's pins and their functions    *)
(* are made the tables of the pinctrl framework, and how a pin is given a   *)
(* function through them.                                                   *)
(*                                                                          *)
(* A function is an entry of pctl->functions: its name and its groups; each *)
(* pin is a group of its own.                                               *)
(***************************************************************************)
EXTENDS AxpPins, SequencesExt

CONSTANT Chips

VARIABLES chip,       \* the PMIC
          stage,      \* "count" and "group" in axp_pinctrl_build_state, then "registered";
                      \* "outside" once an entry past the array is used
          left,       \* the pins' functions that the stage's loops have still to take
          functions,  \* pctl->functions
          mux         \* pin |-> the function set last

vars == <<chip, stage, left, functions, mux>>

NULL == [name |-> "none", ngroups |-> 0, groups |-> <<>>]

(* desc->pins, in the order of their numbers, each with each function         *)
Described(p) ==
    LET pins == SetToSortSeq(DOMAIN Pins(p), <)
    IN  FlattenSeq([n \in DOMAIN pins |->
                      [f \in DOMAIN Pins(p)[pins[n]] |-> <<pins[n], Pins(p)[pins[n]][f]>>]])
npins == Cardinality(DOMAIN Pins(chip))

Named(name) == {n \in DOMAIN functions : functions[n].name = name}

(* axp_pinctrl_desc_find_function_by_name                                     *)
HasFunction(pin, name) == pin \in DOMAIN Pins(chip) /\ \E n \in DOMAIN Pins(chip)[pin] : Pins(chip)[pin][n] = name
-----------------------------------------------------------------------------
Init ==
    /\ chip \in Chips
    /\ stage = "count"
    /\ left = Described(chip)
    /\ functions = [n \in 1 .. npins |-> NULL]
    /\ mux = <<>>

(* axp_pinctrl_add_function: another group of a function, or a new entry in   *)
(* the first place that is free.  The loop looks at no length; past the array *)
(* anything may happen.                                                       *)
AddFunction ==
    /\ stage = "count" /\ left # <<>>
    /\ LET name == Head(left)[2]
           free == {n \in DOMAIN functions : functions[n] = NULL}
       IN  IF Named(name) # {}
           THEN /\ functions' = [functions EXCEPT ![CHOOSE n \in Named(name) : TRUE].ngroups = @ + 1]
                /\ UNCHANGED stage
           ELSE IF free # {}
           THEN /\ functions' =
                     [functions EXCEPT ![Min(free)] = [NULL EXCEPT !.name = name, !.ngroups = 1]]
                /\ UNCHANGED stage
           ELSE stage' = "outside" /\ UNCHANGED functions
    /\ left' = Tail(left)
    /\ UNCHANGED <<chip, mux>>

(* krealloc to the number of functions counted                                *)
Shrink ==
    /\ stage = "count" /\ left = <<>>
    /\ stage' = "group"
    /\ left' = Described(chip)
    /\ functions' = SelectSeq(functions, LAMBDA f : f # NULL)
    /\ UNCHANGED <<chip, mux>>

(* The pin becomes the next of the function's groups.                         *)
AddGroup ==
    /\ stage = "group" /\ left # <<>>
    /\ functions' = [functions EXCEPT ![CHOOSE n \in Named(Head(left)[2]) : TRUE].groups =
                       Append(@, Head(left)[1])]
    /\ left' = Tail(left)
    /\ UNCHANGED <<chip, stage, mux>>

(* axp_pinctrl_register, when memory suffices                                 *)
Register ==
    /\ stage = "group" /\ left = <<>>
    /\ stage' = "registered"
    /\ UNCHANGED <<chip, left, functions, mux>>

(* axp_pmx_set, by selectors of a function and of one of its groups; what the *)
(* chip's pmx_set returns is not looked at.                                   *)
axp_pmx_set(function, group) ==
    /\ stage = "registered"
    /\ HasFunction(group, functions[function].name)
    /\ mux' = group :> functions[function].name @@ mux
    /\ UNCHANGED <<chip, stage, left, functions>>

(* axp_pmx_gpio_set_direction, for the pin called "GPIO" and the offset       *)
axp_pmx_gpio_set_direction(offset, input) ==
    LET name == IF input THEN "gpio_in" ELSE "gpio_out"
    IN  /\ stage = "registered"
        /\ HasFunction(offset, name)
        /\ mux' = offset :> name @@ mux
        /\ UNCHANGED <<chip, stage, left, functions>>

Done == stage = "outside" /\ UNCHANGED vars

Next ==
    \/ AddFunction \/ Shrink \/ AddGroup \/ Register
    \/ \E f \in DOMAIN functions : \E n \in DOMAIN functions[f].groups :
         axp_pmx_set(f, functions[f].groups[n])
    \/ \E pin \in DOMAIN Pins(chip), input \in BOOLEAN : axp_pmx_gpio_set_direction(pin, input)
    \/ Done

Spec == Init /\ [][Next]_vars
-----------------------------------------------------------------------------
(* axp-gpio.c:527 supposes that there are no more functions than pins, and    *)
(* allocates that many entries: no entry past them is ever used.              *)
FunctionsFit == stage # "outside"
=============================================================================
