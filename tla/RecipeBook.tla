------------------------------ MODULE RecipeBook ------------------------------
(***************************************************************************)
(* What src/examples/recipe_command.h promises: a book of titled recipes,  *)
(* one of which is selected.  A recipe may be written or written anew at   *)
(* any time, only a recipe that exists can be selected, the selected one   *)
(* cannot be deleted, and a selection is changed but never given up.       *)
(***************************************************************************)
CONSTANTS Number,   \* recipe numbers
          Text,     \* what a title reads as
          Empty,    \* the title of a number without a recipe
          NoNumber  \* no recipe is selected

VARIABLES recipes,  \* the numbers that have a recipe
          title,    \* the title of each number
          selected

Init == /\ recipes = {}
        /\ title = [n \in Number |-> Empty]
        /\ selected = NoNumber

Write(n) == /\ recipes' = recipes \cup {n}
            /\ \E t \in Text : title' = [title EXCEPT ![n] = t]
            /\ UNCHANGED selected

Delete(n) == /\ n \in recipes \ {selected}
             /\ recipes' = recipes \ {n}
             /\ title' = [title EXCEPT ![n] = Empty]
             /\ UNCHANGED selected

Select(n) == /\ n \in recipes
             /\ selected' = n
             /\ UNCHANGED <<recipes, title>>

Next == \E n \in Number : Write(n) \/ Delete(n) \/ Select(n)

Spec == Init /\ [][Next]_<<recipes, title, selected>>

==============================================================================
