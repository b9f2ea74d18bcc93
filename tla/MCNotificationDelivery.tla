----------------------- MODULE MCNotificationDelivery -----------------------
(* Channel lists for the runs of NotificationDelivery.                     *)
EXTENDS NotificationDelivery

Discord(enabled) ==
  [kind |-> "discord", enabled |-> enabled,
   keys |-> {"discordWebhookUrl", "webhookUrl"}]
Webhook == [kind |-> "webhook", enabled |-> TRUE, keys |-> {"webhookUrl"}]

\* A disabled and an enabled channel of one kind; two kinds, one of them not
\* usable; an invalid list.
MixedLists ==
  {<<Discord(FALSE), Discord(TRUE)>>, <<Webhook, Discord(TRUE)>>,
   <<Discord(FALSE)>>}
=============================================================================
