--------------------------- MODULE MCWebhookDispatch ---------------------------
EXTENDS WebhookDispatch, TLC

CONSTANTS d1, d2, p1

\* d1 is an appointment with an attendee nobody knows and one with two
\* addresses, d2 a NO_SHOW, which is only relayed.
MCAttendees == (d1 :> <<Anon, p1>>) @@ (d2 :> <<p1>>)
MCChannels  == <<"email", "sms">>
MCProvider  == ("email" :> "smtp") @@ ("sms" :> "twilio") @@ ("whatsapp" :> "none")
MCContacts  == p1 :> {"email", "sms"}
=============================================================================
