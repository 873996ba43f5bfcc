\* Access control of the four front ends: two tags, two users, SSH users
\* of up to three parts over {"", "web"}.
CONSTANTS
    Tags = {t1, t2}
    Users = {u1, u2}
    Names = {"", "web"}
INIT Init
NEXT Next
INVARIANT AccessControl
CHECK_DEADLOCK FALSE
