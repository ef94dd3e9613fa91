-------------------------- MODULE MCChannelConfig ---------------------------
EXTENDS ChannelConfig, TLC

MCMaxChannels == 3

=============================================================================
