-------------------------- MODULE MCExtensionChannel --------------------------
\* Requests are model values; the queues hold one line each.
EXTENDS ExtensionChannel
=============================================================================
