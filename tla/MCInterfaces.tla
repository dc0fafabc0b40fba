---------------------------- MODULE MCInterfaces ----------------------------
EXTENDS Interfaces

(* Two registrations of one kind, and the parameter that names the kind. *)
Widget(n) == [name |-> n, kind |-> 1]
Kind      == [kind |-> 1]

(* The registry; the sign-in; requests that meet in the vector of Contexts. *)
MCMixes ==
  {{Post("registry", Widget(1)), Post("registry", Widget(2)), Delete("registry", Kind)},
   {Post("sign_in", Empty), Delete("sign_in", Empty), Get("show")},
   {Get("show"), Get("sign_in"), Get("registry")}}
=============================================================================
