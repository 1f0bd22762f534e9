------------------------------ MODULE MCAccess ------------------------------
(* A small instance of Access.  In each behaviour the requests are those of *)
(* a few endpoints, which share rows.                                       *)
EXTENDS Access

CONSTANT e1
AnyEmail == {e1, None}

Group(endpoints, links, emails) ==
  [calls |-> endpoints, links |-> links, emails |-> emails, typed |-> {}]
AdminGroup(endpoints, links, phones) ==
  [calls |-> endpoints \cup {"admin"}, links |-> links, emails |-> {None}, typed |-> phones]

Groups ==
  {Group({"enroll", "patch"}, 3, {None}),
   Group({"enroll", "resend", "deliver"}, 2, {None}),
   Group({"enroll", "link"}, 2, {None}),
   Group({"resend", "link", "deactivate"}, 2, {None}),
   Group({"operator"}, 2, AnyEmail),
   Group({"operator", "me"}, 1, AnyEmail),
   Group({"patch", "change", "delete", "deactivate"}, 1, {None}),
   AdminGroup({"delete"}, 1, Phone),
   AdminGroup({"patch", "change", "deactivate"}, 1, {OldPhone, None}),
   AdminGroup({"enroll"}, 2, {OldPhone}),
   Group({"forgot", "verify", "delete"}, 2, {None}),
   Group({"forgot", "verify", "fail"}, 1, {None}),
   Group({"ticket", "delete", "deactivate"}, 1, {None})}

Resets == {Group({"forgot", "verify"}, 1, {None})}
=============================================================================
