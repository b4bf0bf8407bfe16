-------------------------------- MODULE Wire ---------------------------------
(***************************************************************************)
(* The messages farland exchanges, and both ends of the wire that carries  *)
(* them.  Every message has the writer's layout (W..., from its encode     *)
(* function) and the reader's (R..., from its decode function): the        *)
(* connection sequence and the share PDUs of proto/ (in WireLayout), the   *)
(* virtual channels of channels/, and the messages that are not the RDP    *)
(* connection itself (farlandd and its agents, the unprivileged child and  *)
(* its parent, the tokens of network-level authentication, pointer shapes, *)
(* H.264 streams).  A message of any of the formats is written, its octets *)
(* travel, whole or cut short, and the reader of that format takes them    *)
(* in.                                                                     *)
(***************************************************************************)
EXTENDS WireLayout

------------------------------------------------------------------------------
(* Graphics (rdpgfx).                                                      *)

write_rect16 == Nums(2, <<"left", "top", "right", "bottom">>)
read_rect16 == <<Num(2, "left"), Num(2, "top"), Num(2, "right"), Num(2, "bottom"), Less("left", "right"), Less("top", "bottom")>>
write_point16 == <<Signed(2, "x"), Signed(2, "y")>>
read_point16 == <<Signed(2, "x"), Signed(2, "y")>>
write_monitor_def == <<Signed(4, "left"), Signed(4, "top"), Signed(4, "right"), Signed(4, "bottom"), Num(4, "flags")>>
read_monitor_def == <<Signed(4, "left"), Signed(4, "top"), Signed(4, "right"), Signed(4, "bottom"), Num(4, "flags")>>
PixelFormat == OneOf(1, "pixel_format", <<32, 33>>)
CacheSlot == Among(2, "cache_slot", 1, 25600)
BitmapData == Sized(4, 0, "bitmap_data")
V10_1 == 655616
\* caps_data_length: the versions whose set is four octets of flags.
FlagVersions == {524292, 524549, 655362, 655872, 656129, 656384, 656642, 656896, 656897, 657153}
\* Of the versions written here one has flags, one sixteen reserved octets,
\* and one no length this code knows; make_capability_set gives it flags too.
write_capability_set == <<OneOf(4, "version", <<524549, V10_1, 721153>>),
    Case("version", FlagVersions, <<Lit(<<4, 0, 0, 0>>), Num(4, "flags")>>),
    Case("version", {V10_1}, <<Lit(<<16, 0, 0, 0>>), Pad(16)>>),
    Case("version", Nat \ (FlagVersions \union {V10_1}), <<Lit(<<4, 0, 0, 0>>), Num(4, "flags")>>)>>
read_capability_set == <<Num(4, "version"),
    Case("version", FlagVersions, <<Lit(<<4, 0, 0, 0>>), Num(4, "flags")>>),
    Case("version", {V10_1}, <<Lit(<<16, 0, 0, 0>>), Pad(16)>>),
    Case("version", Nat \ (FlagVersions \union {V10_1}),
         <<Ahead(4, "length", << >>), Expect("length", 0..256), Sub("length", <<Stop(""), Num(4, "flags"), Slack>>)>>)>>

GfxCommands == [wire_to_surface_1 |-> 1, wire_to_surface_2 |-> 2, delete_encoding_context |-> 3, solid_fill |-> 4,
    surface_to_surface |-> 5, surface_to_cache |-> 6, cache_to_surface |-> 7, evict_cache_entry |-> 8, create_surface |-> 9,
    delete_surface |-> 10, start_frame |-> 11, end_frame |-> 12, frame_acknowledge |-> 13, reset_graphics |-> 14,
    map_surface_to_output |-> 15, cache_import_offer |-> 16, cache_import_reply |-> 17, caps_advertise |-> 18, caps_confirm |-> 19,
    map_surface_to_window |-> 21, qoe_frame_acknowledge |-> 22, map_surface_to_scaled_output |-> 23, map_surface_to_scaled_window |-> 24]
WSurfaceBodies == [
    wire_to_surface_1 |-> <<Num(2, "surface_id"), Num(2, "codec_id"), PixelFormat, Rec("dest_rect", write_rect16), BitmapData>>,
    wire_to_surface_2 |-> <<Num(2, "surface_id"), Num(2, "codec_id"), Num(4, "codec_context_id"), PixelFormat, BitmapData>>,
    delete_encoding_context |-> <<Num(2, "surface_id"), Num(4, "codec_context_id")>>,
    solid_fill |-> <<Num(2, "surface_id")>> \o Nums(1, <<"b", "g", "r", "xa">>) \o <<Count(2, "fill_rects", 65535), Items("fill_rects", write_rect16)>>,
    surface_to_surface |-> <<Num(2, "surface_id_src"), Num(2, "surface_id_dest"), Rec("rect_src", write_rect16),
                             Count(2, "dest_pts", 65535), Items("dest_pts", write_point16)>>,
    surface_to_cache |-> <<Num(2, "surface_id"), Num(8, "cache_key"), CacheSlot, Rec("rect_src", write_rect16)>>,
    cache_to_surface |-> <<CacheSlot, Num(2, "surface_id"), Count(2, "dest_pts", 65535), Items("dest_pts", write_point16)>>,
    evict_cache_entry |-> <<CacheSlot>>]
RSurfaceBodies == [
    wire_to_surface_1 |-> <<Num(2, "surface_id"), Num(2, "codec_id"), PixelFormat, Rec("dest_rect", read_rect16), BitmapData>>,
    wire_to_surface_2 |-> <<Num(2, "surface_id"), Num(2, "codec_id"), Num(4, "codec_context_id"), PixelFormat, BitmapData>>,
    delete_encoding_context |-> <<Num(2, "surface_id"), Num(4, "codec_context_id")>>,
    solid_fill |-> <<Num(2, "surface_id"), Num(1, "b"), Num(1, "g"), Num(1, "r"), Num(1, "xa"),
                     Count(2, "fill_rects", 65535), Items("fill_rects", read_rect16)>>,
    surface_to_surface |-> <<Num(2, "surface_id_src"), Num(2, "surface_id_dest"), Rec("rect_src", read_rect16),
                             Count(2, "dest_pts", 65535), Items("dest_pts", read_point16)>>,
    surface_to_cache |-> <<Num(2, "surface_id"), Num(8, "cache_key"), CacheSlot, Rec("rect_src", read_rect16)>>,
    cache_to_surface |-> <<CacheSlot, Num(2, "surface_id"), Count(2, "dest_pts", 65535), Items("dest_pts", read_point16)>>,
    evict_cache_entry |-> <<CacheSlot>>]
\* RDPGFX_RESET_GRAPHICS_PDU is 340 octets whatever it holds.
WFrameBodies == [
    create_surface |-> <<Num(2, "surface_id"), Num(2, "width"), Num(2, "height"), PixelFormat>>,
    delete_surface |-> <<Num(2, "surface_id")>>,
    start_frame |-> Nums(4, <<"timestamp", "frame_id">>), end_frame |-> <<Num(4, "frame_id")>>,
    frame_acknowledge |-> Nums(4, <<"queue_depth", "frame_id", "total_frames_decoded">>),
    reset_graphics |-> <<PadTo(332, <<Among(4, "width", 1, 32766), Among(4, "height", 1, 32766),
                                      Count(4, "monitors", 16), Items("monitors", write_monitor_def)>>)>>,
    map_surface_to_output |-> <<Num(2, "surface_id"), Pad(2), Num(4, "output_origin_x"), Num(4, "output_origin_y")>>,
    cache_import_offer |-> <<Count(2, "entries", 5461), Items("entries", <<Num(8, "cache_key"), Num(4, "bitmap_length")>>)>>]
RFrameBodies == [
    create_surface |-> <<Num(2, "surface_id"), Among(2, "width", 1, 65535), Among(2, "height", 1, 65535), PixelFormat>>,
    delete_surface |-> <<Num(2, "surface_id")>>,
    start_frame |-> <<Num(4, "timestamp"), Num(4, "frame_id")>>, end_frame |-> <<Num(4, "frame_id")>>,
    frame_acknowledge |-> <<Num(4, "queue_depth"), Num(4, "frame_id"), Num(4, "total_frames_decoded")>>,
    reset_graphics |-> <<PadTo(332, <<Among(4, "width", 1, 32766), Among(4, "height", 1, 32766),
                                      Count(4, "monitors", 16), Items("monitors", read_monitor_def), Slack>>)>>,
    map_surface_to_output |-> <<Num(2, "surface_id"), Pad(2), Num(4, "output_origin_x"), Num(4, "output_origin_y")>>,
    cache_import_offer |-> <<Count(2, "entries", 5461), Items("entries", <<Num(8, "cache_key"), Num(4, "bitmap_length")>>)>>]
WCacheBodies == [
    cache_import_reply |-> <<Count(2, "cache_slots", 5461), Items("cache_slots", <<CacheSlot>>)>>,
    caps_advertise |-> <<Count(2, "caps_sets", 64), Items("caps_sets", write_capability_set)>>,
    caps_confirm |-> <<Rec("caps_set", write_capability_set)>>,
    map_surface_to_window |-> <<Num(2, "surface_id"), Num(8, "window_id"), Num(4, "mapped_width"), Num(4, "mapped_height")>>,
    qoe_frame_acknowledge |-> <<Num(4, "frame_id"), Num(4, "timestamp"), Num(2, "time_diff_se"), Num(2, "time_diff_edr")>>,
    map_surface_to_scaled_output |-> <<Num(2, "surface_id"), Pad(2)>> \o
        Nums(4, <<"output_origin_x", "output_origin_y", "target_width", "target_height">>),
    map_surface_to_scaled_window |-> <<Num(2, "surface_id"), Num(8, "window_id")>> \o
        Nums(4, <<"mapped_width", "mapped_height", "target_width", "target_height">>)]
RCacheBodies == [
    cache_import_reply |-> <<Count(2, "cache_slots", 5461), Items("cache_slots", <<CacheSlot>>)>>,
    caps_advertise |-> <<Count(2, "caps_sets", 64), Items("caps_sets", read_capability_set), Lens("caps_sets", 1, 64), Unlike("caps_sets", "version")>>,
    caps_confirm |-> <<Rec("caps_set", read_capability_set)>>,
    map_surface_to_window |-> <<Num(2, "surface_id"), Num(8, "window_id"), Num(4, "mapped_width"), Num(4, "mapped_height")>>,
    qoe_frame_acknowledge |-> <<Num(4, "frame_id"), Num(4, "timestamp"), Num(2, "time_diff_se"), Num(2, "time_diff_edr")>>,
    map_surface_to_scaled_output |-> <<Num(2, "surface_id"), Pad(2), Num(4, "output_origin_x"), Num(4, "output_origin_y"),
                                       Num(4, "target_width"), Num(4, "target_height")>>,
    map_surface_to_scaled_window |-> <<Num(2, "surface_id"), Num(8, "window_id"), Num(4, "mapped_width"), Num(4, "mapped_height"),
                                       Num(4, "target_width"), Num(4, "target_height")>>]
WGfx == <<Kind(2, GfxCommands), Pad(2), Frame(4, FALSE, 8, <<By(WSurfaceBodies @@ WFrameBodies @@ WCacheBodies)>>)>>
RGfx == <<Kind(2, GfxCommands), Pad(2), Whole(4, FALSE, 8, <<By(RSurfaceBodies @@ RFrameBodies @@ RCacheBodies)>>)>>

------------------------------------------------------------------------------
(* Audio out (rdpsnd) and in (audin).                                      *)

WAudioFormat == <<Num(2, "tag"), Num(2, "channels"), Num(4, "samples_per_sec"), Num(4, "avg_bytes_per_sec"),
    Num(2, "block_align"), Num(2, "bits_per_sample"), Sized(2, 0, "extra")>>
RAudioFormat == <<Num(2, "tag"), Among(2, "channels", 1, 65535), Num(4, "samples_per_sec"), Num(4, "avg_bytes_per_sec"),
    Among(2, "block_align", 1, 65535), Num(2, "bits_per_sample"), Sized(2, 0, "extra"), Lens("extra", 0, 1024)>>
SoundServerTypes == [close |-> 1, set_volume |-> 3, set_pitch |-> 4, training |-> 6, formats |-> 7, wave2 |-> 13]
WSoundServer == <<Kind(1, SoundServerTypes), Pad(1), Frame(2, FALSE, 0, <<By([
    formats |-> <<Pad(14), Count(2, "formats", 256), Num(1, "last_block_confirmed"), Num(2, "version"), Pad(1), Items("formats", WAudioFormat)>>,
    training |-> <<Num(2, "timestamp"), Zeros(2, 8, "data_size")>>,
    wave2 |-> <<Num(2, "timestamp"), Num(2, "format_no"), Num(1, "block_no"), Pad(3), Num(4, "audio_timestamp"), Rest("data")>>,
    close |-> << >>, set_volume |-> <<Num(4, "volume")>>, set_pitch |-> <<Num(4, "pitch")>>])>>)>>
RSoundServer == <<Kind(1, SoundServerTypes), Pad(1), Whole(2, FALSE, 0, <<By([
    formats |-> <<Pad(14), Count(2, "formats", 256), Num(1, "last_block_confirmed"), Num(2, "version"), Pad(1), Items("formats", RAudioFormat)>>,
    training |-> <<Num(2, "timestamp"), Zeros(2, 8, "data_size")>>,
    wave2 |-> <<Num(2, "timestamp"), Num(2, "format_no"), Num(1, "block_no"), Pad(3), Num(4, "audio_timestamp"), Rest("data")>>,
    close |-> << >>, set_volume |-> <<Num(4, "volume")>>, set_pitch |-> <<Num(4, "pitch")>>])>>)>>
\* WaveInfo, whose size covers the Wave that follows it, less eight octets;
\* its last four are the sample's first, and the Wave has four zeros there.
WWave == <<Lit(<<2, 0>>), Ahead(2, "body", <<Pad(8), Blob(4, "first_bytes"), Rest("rest")>>), Num(2, "timestamp"), Num(2, "format_no"),
    Num(1, "block_no"), Pad(3), Blob(4, "first_bytes"), Lit(<<0, 0, 0, 0>>), Rest("rest")>>
RWave == <<Lit(<<2>>), Pad(1), Ahead(2, "body", << >>), Expect("body", 12..65535), Num(2, "timestamp"), Num(2, "format_no"),
    Num(1, "block_no"), Pad(3), Blob(4, "first_bytes"), SubLess("body", 8, <<Lit(<<0, 0, 0, 0>>), Rest("rest")>>)>>
SoundClientTypes == [wave_confirm |-> 5, training_confirm |-> 6, client_formats |-> 7, quality_mode |-> 12]
WSoundClient == <<Kind(1, SoundClientTypes), Pad(1), Frame(2, FALSE, 0, <<By([
    client_formats |-> Nums(4, <<"flags", "volume", "pitch">>) \o <<NumBE(2, "dgram_port"), Count(2, "formats", 256), Pad(1),
                        Num(2, "version"), Pad(1), Items("formats", WAudioFormat)>>,
    quality_mode |-> <<Num(2, "mode"), Pad(2)>>,
    training_confirm |-> <<Num(2, "timestamp"), Num(2, "pack_size")>>,
    wave_confirm |-> <<Num(2, "timestamp"), Num(1, "block_no"), Pad(1)>>])>>)>>
RSoundClient == <<Kind(1, SoundClientTypes), Pad(1), Whole(2, FALSE, 0, <<By([
    client_formats |-> <<Num(4, "flags"), Num(4, "volume"), Num(4, "pitch"), NumBE(2, "dgram_port"), Count(2, "formats", 256), Pad(1),
                         Num(2, "version"), Pad(1), Items("formats", RAudioFormat)>>,
    quality_mode |-> <<Num(2, "mode"), Pad(2)>>,
    training_confirm |-> <<Num(2, "timestamp"), Num(2, "pack_size")>>,
    wave_confirm |-> <<Num(2, "timestamp"), Num(1, "block_no"), Pad(1)>>])>>)>>

WMicServer == <<Kind(1, [version |-> 1, formats |-> 2, open |-> 3, format_change |-> 7]), By([
    version |-> <<Num(4, "version")>>,
    formats |-> <<Count(4, "formats", 256), Ahead(4, "size", <<Pad(9), Items("formats", WAudioFormat)>>), Items("formats", WAudioFormat)>>,
    open |-> <<Num(4, "frames_per_packet"), Num(4, "initial_format"), Rec("capture_format", <<OneOf(2, "tag", <<65534>>), Num(2, "channels"),
               Num(4, "samples_per_sec"), Num(4, "avg_bytes_per_sec"), Num(2, "block_align"), Num(2, "bits_per_sample"), Lit(<<22, 0>>), Blob(22, "extra")>>)>>,
    format_change |-> <<Num(4, "new_format")>>])>>
RMicServer == <<Kind(1, [version |-> 1, formats |-> 2, open |-> 3, format_change |-> 7]), By([
    version |-> <<Num(4, "version")>>,
    formats |-> <<Count(4, "formats", 256), Pad(4), Items("formats", RAudioFormat), Slack>>,
    open |-> <<Num(4, "frames_per_packet"), Num(4, "initial_format"),
               Rec("capture_format", RAudioFormat \o <<Case("tag", {65534}, <<Lens("extra", 22, 22)>>)>>)>>,
    format_change |-> <<Num(4, "new_format")>>])>>
MicClientTypes == [version |-> 1, formats |-> 2, open_reply |-> 4, data_incoming |-> 5, data |-> 6, format_change |-> 7]
WMicClient == <<Kind(1, MicClientTypes), By([
    version |-> <<Num(4, "version")>>,
    formats |-> <<Count(4, "formats", 256), Ahead(4, "size", <<Pad(9), Items("formats", WAudioFormat)>>), Items("formats", WAudioFormat)>>,
    open_reply |-> <<Num(4, "result")>>, data_incoming |-> << >>, data |-> <<Rest("data")>>, format_change |-> <<Num(4, "new_format")>>])>>
\* cbSizeFormatsPacket is where the extra data would begin.
RMicClient == <<Kind(1, MicClientTypes), By([
    version |-> <<Num(4, "version")>>,
    formats |-> <<Count(4, "formats", 256), Ahead(4, "size", << >>), SubLess("size", 9, <<Items("formats", RAudioFormat)>>), Slack>>,
    open_reply |-> <<Num(4, "result")>>, data_incoming |-> << >>, data |-> <<Rest("data")>>, format_change |-> <<Num(4, "new_format")>>])>>

------------------------------------------------------------------------------
(* Camera (rdpecam): a version octet, the message, and lists that end with *)
(* the message.                                                            *)

WMediaType == <<Among(1, "format", 0, 7)>> \o Nums(4, <<"width", "height", "frame_rate_numerator", "frame_rate_denominator",
    "pixel_aspect_numerator", "pixel_aspect_denominator">>) \o <<Num(1, "flags")>>
NotZero(f) == Among(4, f, 1, 2147483647)
RMediaType == <<Among(1, "format", 0, 7), Num(4, "width"), Num(4, "height"), NotZero("frame_rate_numerator"), NotZero("frame_rate_denominator"),
    NotZero("pixel_aspect_numerator"), NotZero("pixel_aspect_denominator"), Num(1, "flags")>>
WPropertyValue == <<Num(1, "mode"), Signed(4, "value")>>
RPropertyValue == <<Num(1, "mode"), Signed(4, "value")>>
\* The version octet says something only where versions are negotiated.
WithVersion(kinds, codes) == <<By([k \in DOMAIN codes |-> IF k \in kinds THEN <<Num(1, "version")>> ELSE <<Lit(<<2>>)>>]), Kind(1, codes)>>
CameraServerTypes == [success_response |-> 1, error_response |-> 2, select_version_response |-> 4, activate_device_request |-> 7,
    deactivate_device_request |-> 8, stream_list_request |-> 9, media_type_list_request |-> 11, current_media_type_request |-> 13,
    start_streams_request |-> 15, stop_streams_request |-> 16, sample_request |-> 17, property_list_request |-> 20,
    property_value_request |-> 22, set_property_value_request |-> 24]
WCameraServer == WithVersion({"select_version_response"}, CameraServerTypes) \o <<By([k \in DOMAIN CameraServerTypes |->
    CASE k = "error_response" -> <<Num(4, "code")>>
      [] k \in {"media_type_list_request", "current_media_type_request", "sample_request"} -> <<Num(1, "stream_index")>>
      [] k = "start_streams_request" -> <<Num(1, "stream_index"), Rec("media_type", WMediaType)>>
      [] k = "property_value_request" -> <<Num(1, "property_set"), Num(1, "property_id")>>
      [] k = "set_property_value_request" -> <<Num(1, "property_set"), Num(1, "property_id"), Rec("value", WPropertyValue)>>
      [] OTHER -> << >>])>>
RCameraServer == <<Ahead(1, "version", << >>), Kind(1, CameraServerTypes), By([
    success_response |-> << >>, error_response |-> <<Num(4, "code")>>, select_version_response |-> <<Noted("version")>>,
    activate_device_request |-> << >>, deactivate_device_request |-> << >>, stream_list_request |-> << >>,
    stop_streams_request |-> << >>, property_list_request |-> << >>,
    media_type_list_request |-> <<Num(1, "stream_index")>>, current_media_type_request |-> <<Num(1, "stream_index")>>,
    sample_request |-> <<Num(1, "stream_index")>>,
    start_streams_request |-> <<Num(1, "stream_index"), Rec("media_type", RMediaType)>>,
    property_value_request |-> <<Num(1, "property_set"), Num(1, "property_id")>>,
    set_property_value_request |-> <<Num(1, "property_set"), Num(1, "property_id"), Rec("value", RPropertyValue)>>])>>
CameraClientTypes == [success_response |-> 1, error_response |-> 2, select_version_request |-> 3, device_added |-> 5, device_removed |-> 6,
    stream_list_response |-> 10, media_type_list_response |-> 12, current_media_type_response |-> 14, sample_response |-> 18,
    sample_error_response |-> 19, property_list_response |-> 21, property_value_response |-> 23]
WCameraClient == WithVersion({"select_version_request"}, CameraClientTypes) \o <<By([
    success_response |-> << >>, error_response |-> <<Num(4, "code")>>, select_version_request |-> << >>,
    device_added |-> <<TextZ16(512, "device_name"), TextZ8("channel_name")>>, device_removed |-> <<TextZ8("channel_name")>>,
    stream_list_response |-> <<Fill("streams", 255, <<Num(2, "frame_source_types"), Num(1, "category"),
                               OneOf(1, "selected", <<1, 0>>), OneOf(1, "can_be_shared", <<0, 1>>)>>)>>,
    media_type_list_response |-> <<Fill("media_types", 255, WMediaType)>>,
    current_media_type_response |-> <<Rec("media_type", WMediaType)>>,
    sample_response |-> <<Num(1, "stream_index"), Rest("sample")>>,
    sample_error_response |-> <<Num(1, "stream_index"), Num(4, "code")>>,
    property_list_response |-> <<Fill("properties", 255, <<Num(1, "property_set"), Num(1, "property_id"), Num(4, "capabilities"),
                                 Signed(4, "min_value"), Signed(4, "max_value"), Signed(4, "step"), Signed(4, "default_value")>>)>>,
    property_value_response |-> <<Rec("value", WPropertyValue)>>])>>
RCameraClient == <<Ahead(1, "version", << >>), Kind(1, CameraClientTypes), By([
    success_response |-> << >>, error_response |-> <<Num(4, "code")>>, select_version_request |-> <<Noted("version")>>,
    device_added |-> <<TextZ16(512, "device_name"), TextZ8("channel_name"), Lens("channel_name", 1, 256)>>,
    device_removed |-> <<TextZ8("channel_name"), Lens("channel_name", 0, 256)>>,
    stream_list_response |-> <<Fill("streams", 255, <<Num(2, "frame_source_types"), Num(1, "category"), Truth("selected"), Truth("can_be_shared")>>)>>,
    media_type_list_response |-> <<Fill("media_types", 255, RMediaType)>>,
    current_media_type_response |-> <<Rec("media_type", RMediaType)>>,
    sample_response |-> <<Num(1, "stream_index"), Rest("sample")>>,
    sample_error_response |-> <<Num(1, "stream_index"), Num(4, "code")>>,
    property_list_response |-> <<Fill("properties", 255, <<Num(1, "property_set"), Num(1, "property_id"), Num(4, "capabilities"),
                                 Signed(4, "min_value"), Signed(4, "max_value"), Signed(4, "step"), Signed(4, "default_value")>>)>>,
    property_value_response |-> <<Rec("value", RPropertyValue)>>])>>

------------------------------------------------------------------------------
(* Display control (disp), touch and pen (rdpei).                          *)

WMonitorLayout == <<Num(4, "flags"), Signed(4, "left"), Signed(4, "top")>> \o Nums(4, <<"width", "height", "physical_width",
    "physical_height", "orientation", "desktop_scale_factor", "device_scale_factor">>)
RMonitorLayout == <<Num(4, "flags"), Signed(4, "left"), Signed(4, "top"), Num(4, "width"), Num(4, "height"), Num(4, "physical_width"),
    Num(4, "physical_height"), Num(4, "orientation"), Num(4, "desktop_scale_factor"), Num(4, "device_scale_factor")>>
WDisplay == <<Kind(4, [monitor_layout |-> 2, caps |-> 5]), Frame(4, FALSE, 8, <<By([
    caps |-> Nums(4, <<"max_num_monitors", "max_monitor_area_factor_a", "max_monitor_area_factor_b">>),
    monitor_layout |-> <<Lit(<<40, 0, 0, 0>>), Count(4, "monitors", 16), Items("monitors", WMonitorLayout)>>])>>)>>
RDisplay == <<Kind(4, [monitor_layout |-> 2, caps |-> 5]), Whole(4, FALSE, 8, <<By([
    caps |-> <<Num(4, "max_num_monitors"), Num(4, "max_monitor_area_factor_a"), Num(4, "max_monitor_area_factor_b")>>,
    monitor_layout |-> <<Lit(<<40, 0, 0, 0>>), Count(4, "monitors", 16), Items("monitors", RMonitorLayout), Lens("monitors", 1, 16)>>])>>)>>

Two(f) == VarInt(1, FALSE, f)
TwoSigned(f) == VarInt(1, TRUE, f)
Four(f) == VarInt(2, FALSE, f)
FourSigned(f) == VarInt(2, TRUE, f)
Eight(f) == VarInt(3, FALSE, f)
WTouchContact == <<Num(1, "contact_id"), VarFlags(<<"contact_rect", "orientation", "pressure">>), FourSigned("x"), FourSigned("y"), Four("contact_flags"),
    If("contact_rect", <<Rec("contact_rect", <<TwoSigned("left"), TwoSigned("top"), TwoSigned("right"), TwoSigned("bottom")>>)>>),
    If("orientation", <<Four("orientation")>>), If("pressure", <<Four("pressure")>>)>>
RTouchContact == <<Num(1, "contact_id"), VarFlags(<<"contact_rect", "orientation", "pressure">>), FourSigned("x"), FourSigned("y"), Four("contact_flags"),
    If("contact_rect", <<Rec("contact_rect", <<TwoSigned("left"), TwoSigned("top"), TwoSigned("right"), TwoSigned("bottom")>>)>>),
    If("orientation", <<Four("orientation")>>), If("pressure", <<Four("pressure")>>)>>
PenFields == <<"pen_flags", "pressure", "rotation", "tilt_x", "tilt_y">>
WPenContact == <<Num(1, "device_id"), VarFlags(PenFields), FourSigned("x"), FourSigned("y"), Four("contact_flags"),
    If("pen_flags", <<Four("pen_flags")>>), If("pressure", <<Four("pressure")>>), If("rotation", <<Two("rotation")>>),
    If("tilt_x", <<TwoSigned("tilt_x")>>), If("tilt_y", <<TwoSigned("tilt_y")>>)>>
RPenContact == <<Num(1, "device_id"), VarFlags(PenFields), FourSigned("x"), FourSigned("y"), Four("contact_flags"),
    If("pen_flags", <<Four("pen_flags")>>), If("pressure", <<Four("pressure")>>), If("rotation", <<Two("rotation")>>),
    If("tilt_x", <<TwoSigned("tilt_x")>>), If("tilt_y", <<TwoSigned("tilt_y")>>)>>
WEvent(limit, contact) == <<Four("encode_time"), VarCount("frames", 128),
    Items("frames", <<VarCount("contacts", limit), Eight("frame_offset"), Items("contacts", contact)>>)>>
REvent(limit, contact) == <<Four("encode_time"), VarCount("frames", 128),
    Items("frames", <<VarCount("contacts", limit), Eight("frame_offset"), Items("contacts", contact)>>)>>
TouchTypes == [sc_ready |-> 1, cs_ready |-> 2, touch |-> 3, suspend_input |-> 4, resume_input |-> 5,
    dismiss_hovering_touch_contact |-> 6, pen |-> 8]
WTouch == <<Kind(2, TouchTypes), Frame(4, FALSE, 6, <<By([
    cs_ready |-> <<Num(4, "flags"), Num(4, "protocol_version"), Num(2, "max_touch_contacts")>>,
    touch |-> WEvent(256, WTouchContact), pen |-> WEvent(4, WPenContact),
    dismiss_hovering_touch_contact |-> <<Num(1, "contact_id")>>,
    sc_ready |-> <<Num(4, "protocol_version"), Opt("supported_features", <<Num(4, "supported_features")>>)>>,
    suspend_input |-> << >>, resume_input |-> << >>])>>)>>
RTouch == <<Kind(2, TouchTypes), Whole(4, FALSE, 6, <<By([
    cs_ready |-> <<Num(4, "flags"), Num(4, "protocol_version"), Num(2, "max_touch_contacts")>>,
    touch |-> REvent(256, RTouchContact), pen |-> REvent(4, RPenContact),
    dismiss_hovering_touch_contact |-> <<Num(1, "contact_id")>>,
    sc_ready |-> <<Num(4, "protocol_version"), Stop(""), Num(4, "supported_features")>>,
    suspend_input |-> << >>, resume_input |-> << >>])>>)>>

------------------------------------------------------------------------------
(* The clipboard (cliprdr), with long format names or short ones.          *)

ClipTypes == [monitor_ready |-> 1, format_list |-> 2, format_list_response |-> 3, format_data_request |-> 4, format_data_response |-> 5,
    temp_directory |-> 6, clip_caps |-> 7, file_contents_request |-> 8, file_contents_response |-> 9, lock_clipdata |-> 10, unlock_clipdata |-> 11]
ClipAnswers == {"format_list_response", "format_data_response", "file_contents_response"}
WFormats(long) == IF long THEN <<Num(4, "id"), TextZ16(512, "name")>> ELSE <<Num(4, "id"), Text16(32, "name")>>
RFormats(long) == IF long THEN <<Num(4, "id"), TextZ16(512, "name")>> ELSE <<Num(4, "id"), Text16(32, "name")>>
\* A size is asked for as eight octets at position 0.
WFileContentsRequest == <<Num(4, "stream_id"), Signed(4, "index"), OneOf(4, "flags", <<2, 1>>),
    Case("flags", {2}, <<Num(8, "position"), Num(4, "requested")>>), Case("flags", {1}, <<Lit(<<0, 0, 0, 0, 0, 0, 0, 0, 8, 0, 0, 0>>)>>),
    Opt("clip_data_id", <<Num(4, "clip_data_id")>>)>>
RFileContentsRequest == <<Num(4, "stream_id"), Signed(4, "index"), OneOf(4, "flags", <<1, 2>>),
    Case("flags", {1}, <<Lit(<<0, 0, 0, 0, 0, 0, 0, 0, 8, 0, 0, 0>>)>>), Case("flags", {2}, <<Num(8, "position"), Num(4, "requested")>>),
    Stop(""), Num(4, "clip_data_id")>>
RClipCaps == <<BlockCount(2, {}, 16), Pad(2), Blocks(<<Block(1, "general", <<Num(4, "version"), Num(4, "general_flags"), Slack>>)>>, {}, "refuse")>>
\* An answer's flags say OK (1) or FAIL (2), and only OK brings data.
WClip(long) == <<Kind(2, ClipTypes), By([k \in DOMAIN ClipTypes |-> IF k \in ClipAnswers THEN <<OneOf(2, "ok", <<1, 2>>)>> ELSE <<Lit(<<0, 0>>)>>]),
    Frame(4, FALSE, 0, <<By([
        clip_caps |-> <<BlockCount(2, {"general"}, 1), Pad(2), Block(1, "general", Nums(4, <<"version", "general_flags">>))>>,
        monitor_ready |-> << >>, temp_directory |-> <<Text16(520, "path")>>,
        format_list |-> <<Fill("formats", 256, WFormats(long))>>, format_list_response |-> << >>,
        lock_clipdata |-> <<Num(4, "clip_data_id")>>, unlock_clipdata |-> <<Num(4, "clip_data_id")>>,
        format_data_request |-> <<Num(4, "format_id")>>,
        format_data_response |-> <<Case("ok", {1}, <<Rest("data")>>)>>,
        file_contents_request |-> WFileContentsRequest,
        file_contents_response |-> <<Num(4, "stream_id"), Case("ok", {1}, <<Rest("data")>>)>>])>>)>>
RClip(long) == <<Kind(2, ClipTypes), By([k \in DOMAIN ClipTypes |-> IF k \in ClipAnswers
                                                                   THEN <<Bits(2, FALSE, <<Field(1, 4, "ok")>>), Holds("ok", {1, 2})>> ELSE <<Pad(2)>>]),
    TrailFrame(4, <<By([
        clip_caps |-> RClipCaps,
        monitor_ready |-> << >>, temp_directory |-> <<Text16(520, "path")>>,
        format_list |-> <<Fill("formats", 256, RFormats(long))>>, format_list_response |-> << >>,
        lock_clipdata |-> <<Num(4, "clip_data_id")>>, unlock_clipdata |-> <<Num(4, "clip_data_id")>>,
        format_data_request |-> <<Num(4, "format_id")>>,
        format_data_response |-> <<Case("ok", {1}, <<Rest("data")>>), Slack>>,
        file_contents_request |-> RFileContentsRequest,
        file_contents_response |-> <<Case("ok", {1}, <<Num(4, "stream_id"), Rest("data")>>), Case("ok", {2}, <<Stop(""), Num(4, "stream_id"), Slack>>)>>])>>)>>
WFileList == <<Count(4, "files", 16384), Items("files", <<Num(4, "flags"), Pad(32), Num(4, "attributes"), Pad(16), Num(8, "last_write_time"),
    Num(4, "size_high"), Num(4, "size_low"), Text16(520, "name")>>)>>
RFileList == <<Count(4, "files", 16384), Items("files", <<Num(4, "flags"), Pad(32), Num(4, "attributes"), Pad(16), Num(8, "last_write_time"),
    Num(4, "size_high"), Num(4, "size_low"), Text16(520, "name")>>)>>

------------------------------------------------------------------------------
(* Dynamic channels (drdynvc).  The first octet has the command, two bits  *)
(* the command gives a meaning, and the width of the channel's id.         *)

WithId == <<SizeOf(1, "channel_id")>>
WithLength == <<SizeOf(1, "channel_id"), SizeOf(4, "length")>>
WithPriority == <<SizeOf(1, "channel_id"), Field(4, 4, "priority")>>
DataTypes == [data_first |-> 2, data |-> 3, close |-> 4, data_first_compressed |-> 6, data_compressed |-> 7]
DataHeads == [data_first |-> WithLength, data |-> WithId, close |-> WithId, data_first_compressed |-> WithLength, data_compressed |-> WithId]
header_byte(codes, heads) == Bits(1, FALSE, <<OfKind(16, 16, codes), PartsBy(16, heads)>>)
WData == [data_first |-> <<Var("channel_id"), Var("length"), Rest("data")>>, data |-> <<Var("channel_id"), Rest("data")>>,
    close |-> <<Var("channel_id")>>, data_first_compressed |-> <<Var("channel_id"), Var("length"), Rest("data")>>,
    data_compressed |-> <<Var("channel_id"), Rest("data")>>]
RData == [data_first |-> <<Var("channel_id"), Var("length"), Rest("data"), Fits("data", "length")>>, data |-> <<Var("channel_id"), Rest("data")>>,
    close |-> <<Var("channel_id")>>, data_first_compressed |-> <<Var("channel_id"), Var("length"), Rest("data")>>,
    data_compressed |-> <<Var("channel_id"), Rest("data")>>]
DvcServerHead == header_byte([create |-> 1, capabilities |-> 5, soft_sync_request |-> 8] @@ DataTypes,
                             [create |-> WithPriority, capabilities |-> << >>, soft_sync_request |-> << >>] @@ DataHeads)
Charges == <<"charge_0", "charge_1", "charge_2", "charge_3">>
ListsPresent == {n \in 0..65535 : (n \div 2) % 2 = 1}
WSoftSyncList == <<Num(4, "tunnel_type"), Count(2, "channel_ids", 65535), Items("channel_ids", <<Num(4, "id")>>)>>
RSoftSyncList == <<Num(4, "tunnel_type"), Count(2, "channel_ids", 65535), Items("channel_ids", <<Num(4, "id")>>)>>
WDvcServer == <<DvcServerHead, By([
    capabilities |-> <<Pad(1), OneOf(2, "version", <<3, 1, 2>>), Case("version", {2, 3}, Nums(2, Charges))>>,
    create |-> <<Var("channel_id"), TextZ8("name")>>,
    soft_sync_request |-> <<Pad(1), Frame(4, FALSE, 4, <<OneOf(2, "flags", <<3, 1, 2>>),
        Case("flags", {1}, <<Num(2, "number_of_tunnels")>>), Case("flags", {2, 3}, <<Count(2, "channel_lists", 65535), Items("channel_lists", WSoftSyncList)>>)>>)>>]
    @@ WData)>>
RDvcServer == <<DvcServerHead, By([
    capabilities |-> <<Pad(1), OneOf(2, "version", <<1, 2, 3>>), Case("version", {2, 3}, Nums(2, Charges))>>,
    create |-> <<Var("channel_id"), TextZ8("name"), Lens("name", 1, 256)>>,
    soft_sync_request |-> <<Pad(1), Whole(4, FALSE, 4, <<Num(2, "flags"), Case("flags", 0..65535 \ ListsPresent, <<Num(2, "number_of_tunnels")>>),
        Case("flags", ListsPresent, <<Count(2, "channel_lists", 65535), Items("channel_lists", RSoftSyncList)>>)>>)>>]
    @@ RData)>>
DvcClientHead == header_byte([create |-> 1, capabilities |-> 5, soft_sync_response |-> 9] @@ DataTypes,
                             [create |-> WithId, capabilities |-> << >>, soft_sync_response |-> << >>] @@ DataHeads)
WDvcClient == <<DvcClientHead, By([
    capabilities |-> <<Pad(1), Num(2, "version")>>,
    create |-> <<Var("channel_id"), Signed(4, "creation_status")>>,
    soft_sync_response |-> <<Pad(1), Count(4, "tunnels", 65535), Items("tunnels", <<Num(4, "tunnel")>>)>>] @@ WData)>>
RDvcClient == <<DvcClientHead, By([
    capabilities |-> <<Pad(1), Num(2, "version")>>,
    create |-> <<Var("channel_id"), Signed(4, "creation_status")>>,
    soft_sync_response |-> <<Pad(1), Count(4, "tunnels", 65535), Items("tunnels", <<Num(4, "tunnel")>>)>>] @@ RData)>>

------------------------------------------------------------------------------
(* farlandd and its agents.  Text is octets.                               *)

BrokerTypes == [hello |-> 1, new_connection |-> 2, disconnect |-> 3, session_ended |-> 4, stats |-> 5, terminate |-> 6,
                settings |-> 7, consent_request |-> 8, consent_cancel |-> 9, consent_reply |-> 10, seat_takeover |-> 11, seat_greeter |-> 12]
write_flag(f) == Among(1, f, 0, 1)
has(f) == Bits(1, FALSE, <<Present(1, f)>>)
read_flag(f) == Among(1, f, 0, 1)
read_has(f) == <<Ahead(1, f, << >>), Expect(f, 0..1)>>
read_string(f, max) == <<Sized(2, 0, f), Lens(f, 0, max)>>
read_connection_id == Among(8, "connection_id", 1, 2147483647)
is_nla == {2, 8}

write_negotiation == <<Sized(2, 0, "cookie"), Num(4, "requested_protocols"), OneOf(4, "selected_protocol", <<2, 1, 8>>), has("user"),
    Case("selected_protocol", is_nla, <<Frame(2, FALSE, 0, <<Filled("user")>>), Sized(2, 0, "domain")>>)>>
read_negotiation == read_string("cookie", 256) \o <<Num(4, "requested_protocols"), OneOf(4, "selected_protocol", <<0, 1, 2, 8>>)>>
    \o read_has("user") \o <<Case("selected_protocol", is_nla, <<Expect("user", {1})>>), Case("selected_protocol", {0, 1}, <<Expect("user", {0})>>),
        If("user", read_string("user", 1024) \o read_string("domain", 1024) \o <<Lens("user", 1, 1024)>>)>>

BrokerMonitor == <<Signed(4, "left"), Signed(4, "top"), Signed(4, "right"), Signed(4, "bottom"), write_flag("primary")>>
write_client == <<Num(2, "desktop_width"), Num(2, "desktop_height"), Num(4, "keyboard_layout"), Num(4, "keyboard_type"),
    Num(4, "keyboard_subtype"), Num(4, "client_build"), Sized(2, 0, "client_name"), has("desktop_scale_factor"),
    If("desktop_scale_factor", <<Num(4, "desktop_scale_factor")>>), Count(1, "monitors", 16), Items("monitors", BrokerMonitor)>>
read_client == <<Among(2, "desktop_width", 1, 65535), Among(2, "desktop_height", 1, 65535)>>
    \o Nums(4, <<"keyboard_layout", "keyboard_type", "keyboard_subtype", "client_build">>)
    \o read_string("client_name", 256) \o read_has("desktop_scale_factor")
    \o <<If("desktop_scale_factor", <<Num(4, "desktop_scale_factor")>>), Count(1, "monitors", 16),
         Items("monitors", <<Signed(4, "left"), Signed(4, "top"), Signed(4, "right"), Signed(4, "bottom"), read_flag("primary"),
                             AtMost("left", "right"), AtMost("top", "bottom")>>)>>

SettingsFlags == <<"zero_copy", "clearcodec", "refine", "video_regions", "lossless_still", "audio", "microphone", "camera", "clipboard">>
WSettings == <<Among(2, "frames_per_second", 1, 240), Among(1, "bitmap_codec", 0, 1), Among(1, "gfx_codec", 0, 3), has("h264_backend"),
    If("h264_backend", <<Among(1, "h264_backend", 0, 3)>>), Unless("h264_backend", <<Lit(<<0>>)>>),
    Sized(2, 0, "openh264_library"), Sized(2, 0, "render_node")>> \o [i \in 1..9 |-> write_flag(SettingsFlags[i])]
    \o <<Among(1, "autodetect", 0, 2), Among(4, "activation_seconds", 5, 3600)>>
    \o <<Among(4, "h264_bitrate_kbps", 0, 1000000), Among(4, "h264_min_bitrate_kbps", 0, 1000000), Among(4, "h264_max_bitrate_kbps", 0, 1000000)>>
decode_settings == <<Among(2, "frames_per_second", 1, 240), Among(1, "bitmap_codec", 0, 1), Among(1, "gfx_codec", 0, 3)>>
    \o read_has("h264_backend") \o <<If("h264_backend", <<Among(1, "h264_backend", 0, 3)>>),
        Unless("h264_backend", <<Ahead(1, "unused", << >>), Expect("unused", 0..3)>>)>>
    \o read_string("openh264_library", 1024) \o read_string("render_node", 1024) \o [i \in 1..9 |-> read_flag(SettingsFlags[i])]
    \o <<Among(1, "autodetect", 0, 2), Among(4, "activation_seconds", 5, 3600)>>
    \o Nums(4, <<"h264_bitrate_kbps", "h264_min_bitrate_kbps", "h264_max_bitrate_kbps">>)
    \o <<Holds("h264_bitrate_kbps", 0..1000000), Holds("h264_min_bitrate_kbps", 0..1000000), Holds("h264_max_bitrate_kbps", 0..1000000)>>
WNewConnection == <<Num(8, "connection_id"), Rec("negotiation", write_negotiation), Sized(2, 0, "password"), Sized(2, 0, "peer"),
    Num(4, "elapsed_ms"), has("client"), If("client", <<Rec("client", write_client)>>), has("logon_id"),
    If("logon_id", <<Num(4, "logon_id"), Blob(16, "security_verifier")>>), Sized(4, 0, "pending_input")>>
decode_new_connection == <<read_connection_id, Rec("negotiation", read_negotiation)>> \o read_string("password", 512) \o read_string("peer", 256)
    \o <<Num(4, "elapsed_ms")>> \o read_has("client") \o <<If("client", <<Rec("client", read_client)>>)>>
    \o read_has("logon_id") \o <<If("logon_id", <<Num(4, "logon_id"), Blob(16, "security_verifier")>>),
        Sized(4, 0, "pending_input"), Lens("pending_input", 0, 32768)>>
WConsentRequest == <<Num(8, "connection_id"), Sized(2, 0, "user"), Sized(2, 0, "peer"), Sized(2, 0, "client_name"),
    Among(4, "timeout_seconds", 1, 3600), write_flag("allow_on_timeout"), write_flag("from_seat")>>
decode_consent_request == <<read_connection_id>> \o read_string("user", 1024) \o read_string("peer", 256) \o read_string("client_name", 256)
    \o <<Among(4, "timeout_seconds", 1, 3600), read_flag("allow_on_timeout"), read_flag("from_seat")>>
WStats == <<Num(8, "connection_id"), Num(4, "session_seconds"), Num(4, "idle_seconds"), Num(2, "desktop_width"), Num(2, "desktop_height"),
    Num(8, "frames_sent"), Num(8, "bytes_sent"), Num(8, "bytes_received"), Num(4, "rtt_ms"), Num(4, "bandwidth_kbps")>>
RStats == <<Num(8, "connection_id")>> \o Nums(4, <<"session_seconds", "idle_seconds">>) \o Nums(2, <<"desktop_width", "desktop_height">>)
    \o Nums(8, <<"frames_sent", "bytes_sent", "bytes_received">>) \o Nums(4, <<"rtt_ms", "bandwidth_kbps">>)
read_end_reason == Among(1, "reason", 1, 6)
WBroker == <<Whole(4, FALSE, 0, <<Kind(1, BrokerTypes), By([
    hello |-> <<Num(2, "version"), Blob(32, "token")>>, settings |-> WSettings, new_connection |-> WNewConnection,
    disconnect |-> <<Num(8, "connection_id"), Num(4, "error_info")>>, consent_request |-> WConsentRequest,
    consent_cancel |-> <<Num(8, "connection_id")>>, consent_reply |-> <<Num(8, "connection_id"), Among(1, "answer", 1, 4)>>,
    seat_takeover |-> <<write_flag("allowed")>>, seat_greeter |-> << >>, session_ended |-> <<Among(1, "reason", 1, 6), Sized(2, 0, "detail")>>,
    stats |-> WStats, terminate |-> <<Among(1, "reason", 1, 6)>>])>>)>>
RBroker == <<Whole(4, FALSE, 0, <<Kind(1, BrokerTypes), By([
    hello |-> <<Num(2, "version"), Blob(32, "token")>>, settings |-> decode_settings, new_connection |-> decode_new_connection,
    disconnect |-> <<read_connection_id, Num(4, "error_info")>>, consent_request |-> decode_consent_request,
    consent_cancel |-> <<read_connection_id>>, consent_reply |-> <<read_connection_id, Among(1, "answer", 1, 4)>>,
    seat_takeover |-> <<read_flag("allowed")>>, seat_greeter |-> << >>,
    session_ended |-> <<read_end_reason>> \o read_string("detail", 1024), stats |-> RStats, terminate |-> <<read_end_reason>>])>>)>>

------------------------------------------------------------------------------
(* The child and its parent.  The two Kerberos messages are read without a *)
(* look at what follows them.                                              *)

PrivsepTypes == [verify_ntlm_request |-> 1, verify_ntlm_response |-> 2, verify_password_request |-> 3, verify_password_response |-> 4,
                 authenticated |-> 5, kerberos_request |-> 6, kerberos_response |-> 7]
WPrivsep == <<Whole(4, FALSE, 0, <<Kind(1, PrivsepTypes), By([
    verify_ntlm_request |-> <<Sized(2, 0, "user"), Sized(2, 0, "domain"), Blob(8, "server_challenge"), Sized(2, 0, "nt_response")>>,
    verify_ntlm_response |-> <<has("session_base_key"), If("session_base_key", <<Blob(16, "session_base_key")>>)>>,
    verify_password_request |-> <<Sized(2, 0, "user"), Sized(2, 0, "domain"), Sized(2, 0, "password")>>,
    verify_password_response |-> <<Among(1, "ok", 0, 1)>>,
    kerberos_request |-> <<Among(1, "op", 1, 5), Sized(4, 0, "data"), Sized(4, 0, "mic"), Sized(4, 0, "mechanism_oid")>>,
    kerberos_response |-> <<Among(1, "ok", 0, 1), Among(1, "complete", 0, 1), Sized(4, 0, "data"), Sized(2, 0, "user"), Sized(2, 0, "domain")>>,
    authenticated |-> <<Sized(2, 0, "cookie"), Num(4, "requested_protocols"), Num(4, "selected_protocol"), has("user"),
        If("user", <<Sized(2, 0, "user"), Sized(2, 0, "domain")>>)>>])>>)>>
read_blob(f) == <<Sized(4, 0, f), Lens(f, 0, 48000)>>
RPrivsep == <<Whole(4, FALSE, 0, <<Kind(1, PrivsepTypes), By([
    verify_ntlm_request |-> read_string("user", 1024) \o read_string("domain", 1024) \o <<Blob(8, "server_challenge")>> \o read_string("nt_response", 2048),
    verify_ntlm_response |-> <<Ahead(1, "session_base_key", << >>), If("session_base_key", <<Blob(16, "session_base_key")>>)>>,
    verify_password_request |-> read_string("user", 1024) \o read_string("domain", 1024) \o read_string("password", 1024),
    verify_password_response |-> <<Truth("ok")>>,
    kerberos_request |-> <<Among(1, "op", 1, 5)>> \o read_blob("data") \o read_blob("mic") \o read_blob("mechanism_oid") \o <<Slack>>,
    kerberos_response |-> <<Truth("ok"), Truth("complete")>> \o read_blob("data") \o read_string("user", 1024) \o read_string("domain", 1024) \o <<Slack>>,
    authenticated |-> read_string("cookie", 1024) \o Nums(4, <<"requested_protocols", "selected_protocol">>) \o <<Ahead(1, "user", << >>),
        If("user", read_string("user", 1024) \o read_string("domain", 1024))>>])>>)>>

------------------------------------------------------------------------------
(* Network-level authentication.  DER: SEQUENCE is 48, [n] is 160 + n.     *)

Sequence(body) == Tlv(<<48>>, body)
InField(n, body) == Tlv(<<160 + n>>, body)
write_octets_field(n, f) == InField(n, <<Octets(f)>>)
read_octets_field(n, f, max) == <<InField(n, <<Octets(f)>>), Lens(f, 0, max)>>
next_is(n, f, body) == Tagged(160 + n, f, body)

WTsRequest == <<Sequence(<<InField(0, <<Ber(2, "version")>>),
    Tagged(161, "nego_tokens", <<InField(1, <<Sequence(<<Fill("nego_tokens", 4, <<Sequence(<<write_octets_field(0, "token")>>)>>)>>)>>)>>),
    Tagged(162, "auth_info", <<write_octets_field(2, "auth_info")>>), Tagged(163, "pub_key_auth", <<write_octets_field(3, "pub_key_auth")>>),
    Tagged(164, "error_code", <<InField(4, <<Tlv(<<2>>, <<BerSigned("error_code")>>)>>)>>),
    Tagged(165, "client_nonce", <<InField(5, <<Tlv(<<4>>, <<Blob(32, "client_nonce")>>)>>)>>)>>)>>
RTsRequest == <<Sequence(<<InField(0, <<Ber(2, "version")>>),
    next_is(1, "nego_tokens", <<InField(1, <<Sequence(<<Fill("nego_tokens", 4, <<Sequence(read_octets_field(0, "token", 48000))>>)>>)>>),
                                Lens("nego_tokens", 1, 4)>>),
    next_is(2, "auth_info", read_octets_field(2, "auth_info", 48000)), next_is(3, "pub_key_auth", read_octets_field(3, "pub_key_auth", 48000)),
    next_is(4, "error_code", <<InField(4, <<Tlv(<<2>>, <<BerSigned("error_code")>>)>>)>>),
    next_is(5, "client_nonce", read_octets_field(5, "client_nonce", 48000) \o <<Lens("client_nonce", 32, 32)>>)>>)>>

\* The server checks the other two kinds of credentials and keeps their octets.
CredType == [password |-> 1, smart_card |-> 2, remote_guard |-> 6]
PackageCred == Sequence(<<write_octets_field(0, "package_name"), write_octets_field(1, "cred_buffer")>>)
WTsCredentials == <<Sequence(<<InField(0, <<Tlv(<<2>>, <<Kind(1, CredType)>>)>>), InField(1, <<Tlv(<<4>>, <<By([
    password |-> <<Sequence(<<write_octets_field(0, "domain_name"), write_octets_field(1, "user_name"), write_octets_field(2, "password")>>)>>,
    smart_card |-> <<Sequence(<<write_octets_field(0, "pin"),
        InField(1, <<Sequence(<<InField(0, <<Ber(2, "key_spec")>>), Tagged(161, "card_name", <<write_octets_field(1, "card_name")>>),
                                Tagged(164, "csp_name", <<write_octets_field(4, "csp_name")>>)>>)>>),
        Tagged(162, "user_hint", <<write_octets_field(2, "user_hint")>>)>>)>>,
    remote_guard |-> <<Sequence(<<InField(0, <<Rec("logon_cred", <<PackageCred>>)>>),
        Tagged(161, "supplemental_creds", <<InField(1, <<Sequence(<<Fill("supplemental_creds", 16, <<PackageCred>>)>>)>>)>>)>>)>>])>>)>>)>>)>>
decode_password_creds == <<Sequence(read_octets_field(0, "domain_name", 48000) \o read_octets_field(1, "user_name", 48000)
    \o read_octets_field(2, "password", 48000))>>
OptionalName(n, f) == next_is(n, f, read_octets_field(n, f, 48000))
check_smart_card_creds == <<Sequence(read_octets_field(0, "pin", 48000) \o
    <<InField(1, <<Sequence(<<InField(0, <<Ber(2, "key_spec")>>), OptionalName(1, "card_name"), OptionalName(2, "reader_name"),
                              OptionalName(3, "container_name"), OptionalName(4, "csp_name")>>)>>),
      OptionalName(2, "user_hint"), OptionalName(3, "domain_hint")>>)>>
check_package_cred == <<Sequence(read_octets_field(0, "package_name", 48000) \o read_octets_field(1, "cred_buffer", 48000))>>
check_remote_guard_creds == <<Sequence(<<InField(0, <<Rec("logon_cred", check_package_cred)>>),
    next_is(1, "supplemental_creds", <<InField(1, <<Sequence(<<Fill("supplemental_creds", 16, check_package_cred)>>)>>)>>)>>)>>
RTsCredentials == <<Sequence(<<InField(0, <<Tlv(<<2>>, <<Kind(1, CredType)>>)>>), InField(1, <<Tlv(<<4>>, <<By([
    password |-> decode_password_creds, smart_card |-> check_smart_card_creds, remote_guard |-> check_remote_guard_creds])>>)>>)>>)>>

spnego_oid == <<43, 6, 1, 5, 5, 2>>
encode_mech_types == Sequence(<<Fill("mech_types", 16, <<Tlv(<<6>>, <<Oid("oid")>>)>>)>>)
WNegTokenInit == <<Tlv(<<96>>, <<Tlv(<<6>>, <<Lit(spnego_oid)>>), InField(0, <<Sequence(<<InField(0, <<encode_mech_types>>),
    Tagged(162, "mech_token", <<write_octets_field(2, "mech_token")>>),
    Tagged(163, "mech_list_mic", <<write_octets_field(3, "mech_list_mic")>>)>>)>>)>>)>>
read_oid(f) == Tlv(<<6>>, <<Oid(f)>>)
\* Field 3 is the MIC, or hints and then field 4 is the MIC.
RNegTokenInit == <<Tlv(<<96>>, <<Tlv(<<6>>, <<Lit(spnego_oid)>>), InField(0, <<Sequence(<<
    InField(0, <<Sequence(<<Fill("mech_types", 16, <<read_oid("oid")>>), Lens("mech_types", 1, 16)>>)>>),
    next_is(1, "req_flags", <<InField(1, <<Tlv(<<3>>, <<Slack>>)>>)>>), next_is(2, "mech_token", read_octets_field(2, "mech_token", 48000)),
    next_is(3, "mech_list_mic", <<InField(3, <<Tagged(4, "mech_list_mic", <<Octets("mech_list_mic"), Lens("mech_list_mic", 0, 1024)>>),
                                               Tagged(48, "hints", <<Sequence(<<Slack>>)>>)>>)>>),
    next_is(4, "mech_list_mic", read_octets_field(4, "mech_list_mic", 1024))>>)>>)>>)>>
WNegTokenResp == <<InField(1, <<Sequence(<<Tagged(160, "neg_state", <<InField(0, <<Tlv(<<10>>, <<Among(1, "neg_state", 0, 3)>>)>>)>>),
    Tagged(161, "supported_mech", <<InField(1, <<Tlv(<<6>>, <<Oid("supported_mech")>>)>>)>>),
    Tagged(162, "response_token", <<write_octets_field(2, "response_token")>>),
    Tagged(163, "mech_list_mic", <<write_octets_field(3, "mech_list_mic")>>)>>)>>)>>
RNegTokenResp == <<InField(1, <<Sequence(<<next_is(0, "neg_state", <<InField(0, <<Tlv(<<10>>, <<BerSigned("neg_state")>>)>>), Holds("neg_state", 0..3)>>),
    next_is(1, "supported_mech", <<InField(1, <<read_oid("supported_mech")>>)>>),
    next_is(2, "response_token", read_octets_field(2, "response_token", 48000)),
    next_is(3, "mech_list_mic", read_octets_field(3, "mech_list_mic", 1024))>>)>>)>>

\* NTLM.  Version is in a message whose flags (bit 25) say so.
Ntlmssp(type) == Lit(<<78, 84, 76, 77, 83, 83, 80, 0, type, 0, 0, 0>>)
NtlmVersion == <<Num(1, "major"), Num(1, "minor"), Num(2, "build"), Pad(3), Num(1, "revision")>>
read_version == <<Num(1, "major"), Num(1, "minor"), Num(2, "build"), Pad(3), Num(1, "revision")>>
encode_av_pairs(f) == Until(f, <<0, 0, 0, 0>>, 32, <<OneOf(2, "id", <<1, 2, 9>>), Sized(2, 0, "value")>>)
decode_av_pairs(f) == <<Until(f, <<0, 0, 0, 0>>, 32, <<Among(2, "id", 1, 65535), Sized(2, 0, "value"), Case("id", {6}, <<Lens("value", 4, 4)>>),
    Case("id", {7}, <<Lens("value", 8, 8)>>), Case("id", {10}, <<Lens("value", 16, 16)>>)>>), Unlike(f, "id")>>
decode_name(f) == <<Utf16(f), Lens(f, 0, 256)>>

NegotiateFlags == Bits(4, FALSE, <<Field(1, 128, "flags"), Present(2 ^ 25, "version")>>)
NegotiateFields == <<"domain", "workstation">>
WNegotiate == <<Buffers(NegotiateFields, <<Ntlmssp(1), NegotiateFlags, Buffer("domain"), Buffer("workstation"),
    Room("version", NegotiateFields, 8, <<Rec("version", NtlmVersion)>>)>>, [domain |-> <<Rest("domain")>>, workstation |-> <<Rest("workstation")>>])>>
decode_negotiate == <<Buffers(NegotiateFields, <<Ntlmssp(1), NegotiateFlags, Buffer("domain"), Buffer("workstation"),
    Room("version", NegotiateFields, 8, <<Rec("version", read_version)>>)>>,
    [domain |-> <<Rest("domain"), Lens("domain", 0, 512)>>, workstation |-> <<Rest("workstation"), Lens("workstation", 0, 512)>>])>>
ChallengeFields == <<"target_name", "target_info">>
WChallenge == <<Buffers(ChallengeFields, <<Ntlmssp(2), Buffer("target_name"), NegotiateFlags, Blob(8, "server_challenge"), Pad(8), Buffer("target_info"),
    Room("version", ChallengeFields, 8, <<Rec("version", NtlmVersion)>>)>>,
    [target_name |-> <<Rest("target_name")>>, target_info |-> <<Opt("target_info", <<encode_av_pairs("target_info")>>)>>])>>
decode_challenge == <<Buffers(ChallengeFields, <<Ntlmssp(2), Buffer("target_name"), NegotiateFlags, Blob(8, "server_challenge"), Pad(8), Buffer("target_info"),
    Room("version", ChallengeFields, 8, <<Rec("version", read_version)>>)>>,
    [target_name |-> <<Rest("target_name")>>, target_info |-> <<Opt("target_info", decode_av_pairs("target_info") \o <<Slack>>)>>])>>
AuthenticateFields == <<"domain", "user", "workstation", "lm", "nt", "session_key">>
AuthenticateFlags == Bits(4, FALSE, <<Must(1), Field(2, 64, "flags"), Present(2 ^ 25, "version")>>)
AuthenticateHead(version) == <<Ntlmssp(3), Buffer("lm"), Buffer("nt"), Buffer("domain"), Buffer("user"), Buffer("workstation"),
    Buffer("session_key"), AuthenticateFlags, Room("version", AuthenticateFields, 8, <<Rec("version", version)>>),
    Room("mic", AuthenticateFields, 16, <<Blob(16, "mic")>>)>>
WAuthenticate == <<Buffers(AuthenticateFields, AuthenticateHead(NtlmVersion), [domain |-> <<Utf16("domain")>>, user |-> <<Utf16("user")>>,
    workstation |-> <<Utf16("workstation")>>, lm |-> <<Rest("lm")>>, nt |-> <<Rest("nt")>>, session_key |-> <<Rest("session_key")>>])>>
decode_authenticate == <<Buffers(AuthenticateFields, AuthenticateHead(read_version), [domain |-> decode_name("domain"), user |-> decode_name("user"),
    workstation |-> decode_name("workstation"), lm |-> <<Rest("lm")>>, nt |-> <<Rest("nt")>>, session_key |-> <<Rest("session_key")>>])>>
\* What the client proves its password with; the proof and challenge are data.
ntlmv2_temp == <<Pad(16), Lit(<<1, 1>>), Pad(6), Num(8, "timestamp"), Pad(8), Pad(4), encode_av_pairs("av_pairs"), Pad(4)>>
parse_ntlmv2_response == <<Pad(16), Lit(<<1, 1>>), Pad(6), Num(8, "timestamp"), Pad(8 + 4)>> \o decode_av_pairs("av_pairs") \o <<Slack>>

------------------------------------------------------------------------------
(* Pointers and H.264.                                                     *)

Shape == <<Num(2, "hotspot_x"), Num(2, "hotspot_y"), OneOf(2, "width", <<3, 9, 1>>), OneOf(2, "height", <<2, 1, 3>>)>>
Depths == <<1, 4, 8, 15, 16, 24, 32>>
ColorPointer(depth) == <<Num(2, "cache_index")>> \o Shape \o <<Ahead(2, "and_mask", <<Mask("and_mask", 1)>>), Ahead(2, "xor_mask", <<Mask("xor_mask", depth)>>),
    Mask("xor_mask", depth), Mask("and_mask", 1), Pad(1)>>
LargePointer == <<OneOf(2, "xor_bpp", <<32, 1, 15>>), Num(2, "cache_index")>> \o Shape \o <<Ahead(4, "and_mask", <<Mask("and_mask", 1)>>),
    Ahead(4, "xor_mask", <<Mask("xor_mask", 0)>>), Mask("xor_mask", 0), Mask("and_mask", 1), Pad(1)>>
read_masks(depth) == <<Mask("xor_mask", depth), Mask("and_mask", 1), Opt("", <<Pad(1)>>)>>
decode_color_attribute(depth) == Nums(2, <<"cache_index", "hotspot_x", "hotspot_y">>) \o <<Among(2, "width", 1, 96), Among(2, "height", 1, 96),
    Ahead(2, "and_mask", << >>), Ahead(2, "xor_mask", << >>)>> \o read_masks(depth)
decode_large_attribute == <<OneOf(2, "xor_bpp", Depths)>> \o Nums(2, <<"cache_index", "hotspot_x", "hotspot_y">>)
    \o <<Among(2, "width", 1, 384), Among(2, "height", 1, 384), Ahead(4, "and_mask", << >>), Ahead(4, "xor_mask", << >>)>> \o read_masks(0)
NewPointer == <<OneOf(2, "xor_bpp", <<32, 1, 24>>)>> \o ColorPointer(0)
decode_new_attribute == <<OneOf(2, "xor_bpp", Depths)>> \o decode_color_attribute(0)
fastpath_code == [hidden |-> 5, default |-> 6, position |-> 8, color |-> 9, cached |-> 10, new |-> 11, large |-> 12]
encode_fastpath == <<Kind(1, fastpath_code), By([hidden |-> << >>, default |-> << >>, position |-> <<Num(2, "x"), Num(2, "y")>>,
    color |-> ColorPointer(24), cached |-> <<Num(2, "cache_index")>>, new |-> NewPointer, large |-> LargePointer])>>
decode_fastpath == <<Kind(1, fastpath_code), By([hidden |-> << >>, default |-> << >>, position |-> <<Num(2, "x"), Num(2, "y")>>,
    color |-> decode_color_attribute(24), cached |-> <<Num(2, "cache_index")>>, new |-> decode_new_attribute, large |-> decode_large_attribute])>>
message_type == [system |-> 1, position |-> 3, color |-> 6, cached |-> 7, new |-> 8]
encode_slow_path == <<Kind(2, message_type), Pad(2), By([system |-> <<OneOf(4, "system", <<0, 32512>>)>>, position |-> <<Num(2, "x"), Num(2, "y")>>,
    color |-> ColorPointer(24), cached |-> <<Num(2, "cache_index")>>, new |-> NewPointer])>>
decode_slow_path == <<Kind(2, message_type), Pad(2), By([system |-> <<OneOf(4, "system", <<0, 32512>>)>>, position |-> <<Num(2, "x"), Num(2, "y")>>,
    color |-> decode_color_attribute(24), cached |-> <<Num(2, "cache_index")>>, new |-> decode_new_attribute])>>

\* qp is below bit 6, progressive above.
QuantQuality == <<Bits(1, FALSE, <<Field(1, 64, "qp"), Field(128, 2, "progressive")>>), Among(1, "quality", 0, 100)>>
RegionRect == <<Num(2, "left"), Num(2, "top"), Num(2, "right"), Num(2, "bottom")>>
write_avc420 == <<Count(4, "rects", 16384), Items("rects", RegionRect), Items("quants", QuantQuality), Filled("bitstream")>>
read_avc420 == <<Count(4, "rects", 16384), Alike("rects", "quants"), Items("rects", RegionRect \o <<Less("left", "right"), Less("top", "bottom")>>),
    Items("quants", QuantQuality \o <<Holds("qp", 0..51)>>), Filled("bitstream")>>
\* The length of the first stream is below bit 30 (here, below 24), the layout
\* above; a chroma stream alone has length 0.
Avc444Layout == [luma_and_chroma |-> 0, luma |-> 1, chroma |-> 2]
First(body) == Rec("first", body)
encode_avc444 == <<Ahead(3, "size", <<By([luma_and_chroma |-> <<First(write_avc420)>>, luma |-> <<First(write_avc420)>>, chroma |-> << >>])>>),
    Bits(1, FALSE, <<OfKind(64, 4, Avc444Layout)>>), By([luma_and_chroma |-> <<First(write_avc420), Rec("second", write_avc420)>>,
    luma |-> <<First(write_avc420)>>, chroma |-> <<First(write_avc420)>>])>>
decode_avc444 == <<Ahead(3, "size", << >>), Bits(1, FALSE, <<OfKind(64, 4, Avc444Layout)>>),
    By([luma_and_chroma |-> <<Sub("size", <<First(read_avc420)>>), Rec("second", read_avc420)>>,
        luma |-> <<Sub("size", <<First(read_avc420)>>)>>, chroma |-> <<SubOrRest("size", <<First(read_avc420)>>)>>])>>

------------------------------------------------------------------------------
(* The wire.                                                               *)

\* The formats: who writes and who reads, the kinds of message, and the
\* fields that run to the end of the octets, which a reader cannot tell cut.
Format(w, r, kinds, open) == [w |-> w, r |-> r, kinds |-> kinds, open |-> open]
Formats == [
    connection_request |-> Format(WConnectionRequest, RConnectionRequest, {""}, {}),
    connection_confirm |-> Format(WConnectionConfirm, RConnectionConfirm, DOMAIN Negotiated, {}),
    data_tpdu |-> Format(WDataTpdu, RDataTpdu, {""}, {}),
    connect_initial |-> Format(WConnectInitial, RConnectInitial, {""}, {}),
    connect_response |-> Format(WConnectResponse, RConnectResponse, {""}, {}),
    disconnect |-> Format(WDisconnect, RDisconnect, {"disconnect_provider_ultimatum"}, {}),
    domain_pdu |-> Format(WDomainPdu, RDomainPdu, DOMAIN DomainChoices, {}),
    conference_request |-> Format(WConferenceRequest, RConferenceRequest, {""}, {}),
    conference_response |-> Format(WConferenceResponse, RConferenceResponse, {""}, {}),
    client_data |-> Format(WClientData, RClientData, {""}, {}),
    server_data |-> Format(WServerData, RServerData, {""}, {}),
    license |-> Format(WLicense, RLicense, {""}, {}),
    client_info |-> Format(WClientInfo, RClientInfo, {""}, {"extended"}),
    active |-> Format(WActive, RActive, {"demand_active", "confirm_active", "deactivate_all"}, {}),
    data_pdu |-> Format(WDataPdu, RDataPdu, DOMAIN type2_of, {}),
    fast_input |-> Format(WFastInput, RFastInput, {""}, {}),
    save_session |-> Format(WSaveSession, RSaveSession, {""}, {}),
    bitmap_update |-> Format(WBitmapUpdate, RBitmapUpdate, {""}, {}),
    autodetect_request |-> Format(WAutoDetectRequest, RAutoDetectRequest, DOMAIN RequestTypes, {}),
    autodetect_response |-> Format(WAutoDetectResponse, RAutoDetectResponse, DOMAIN ResponseTypes, {}),
    heartbeat |-> Format(WHeartbeat, RHeartbeat, {""}, {}),
    gfx |-> Format(WGfx, RGfx, DOMAIN GfxCommands, {}),
    sound_server |-> Format(WSoundServer, RSoundServer, DOMAIN SoundServerTypes, {}),
    wave |-> Format(WWave, RWave, {""}, {}),
    sound_client |-> Format(WSoundClient, RSoundClient, DOMAIN SoundClientTypes, {}),
    mic_server |-> Format(WMicServer, RMicServer, {"version", "formats", "open", "format_change"}, {}),
    mic_client |-> Format(WMicClient, RMicClient, DOMAIN MicClientTypes, {"data"}),
    camera_server |-> Format(WCameraServer, RCameraServer, DOMAIN CameraServerTypes, {}),
    camera_client |-> Format(WCameraClient, RCameraClient, DOMAIN CameraClientTypes, {"streams", "media_types", "properties", "sample"}),
    display |-> Format(WDisplay, RDisplay, {"caps", "monitor_layout"}, {}),
    touch |-> Format(WTouch, RTouch, DOMAIN TouchTypes, {}),
    clip_long |-> Format(WClip(TRUE), RClip(TRUE), DOMAIN ClipTypes, {}),
    clip_short |-> Format(WClip(FALSE), RClip(FALSE), {"format_list"}, {}),
    file_list |-> Format(WFileList, RFileList, {""}, {}),
    dvc_server |-> Format(WDvcServer, RDvcServer, {"create", "capabilities", "soft_sync_request"} \union DOMAIN DataTypes, {"data"}),
    dvc_client |-> Format(WDvcClient, RDvcClient, {"create", "capabilities", "soft_sync_response"} \union DOMAIN DataTypes, {"data"}),
    broker |-> Format(WBroker, RBroker, DOMAIN BrokerTypes, {}),
    privsep |-> Format(WPrivsep, RPrivsep, DOMAIN PrivsepTypes, {}),
    ts_request |-> Format(WTsRequest, RTsRequest, {""}, {}),
    ts_credentials |-> Format(WTsCredentials, RTsCredentials, DOMAIN CredType, {}),
    neg_token_init |-> Format(WNegTokenInit, RNegTokenInit, {""}, {}),
    neg_token_resp |-> Format(WNegTokenResp, RNegTokenResp, {""}, {}),
    negotiate |-> Format(WNegotiate, decode_negotiate, {""}, {}),
    challenge |-> Format(WChallenge, decode_challenge, {""}, {}),
    authenticate |-> Format(WAuthenticate, decode_authenticate, {""}, {}),
    ntlmv2_response |-> Format(ntlmv2_temp, parse_ntlmv2_response, {""}, {}),
    pointer_fast |-> Format(encode_fastpath, decode_fastpath, DOMAIN fastpath_code, {}),
    pointer_slow |-> Format(encode_slow_path, decode_slow_path, DOMAIN message_type, {}),
    avc420 |-> Format(write_avc420, read_avc420, {""}, {"bitstream"}),
    avc444 |-> Format(encode_avc444, decode_avc444, DOMAIN Avc444Layout, {"first", "second"})]

Sample(fmt, knd, vrt) == Gen(Formats[fmt].w, vrt, IF knd = "" THEN << >> ELSE "kind" :> knd)

VARIABLES
    wireFormat,     \* the format and the kind in use, "" before any
    wireKind,
    wireSent,       \* the message written, if any
    wireOctets,     \* its octets, as far as they arrive
    wireCut,        \* whether some did not
    wireGot         \* what the reader made of them: ok and the message
wireVars == <<wireFormat, wireKind, wireSent, wireOctets, wireCut, wireGot>>

NothingSent == [nothing |-> 0]
NothingRead == [ok |-> FALSE, m |-> NothingSent]
WireInit ==
    /\ wireFormat = "" /\ wireKind = "" /\ wireSent = NothingSent /\ wireOctets = << >> /\ wireCut = FALSE
    /\ wireGot = NothingRead

\* One end has a message of some kind to send.
PickFormat ==
    /\ wireFormat = ""
    /\ \E fmt \in DOMAIN Formats : \E knd \in Formats[fmt].kinds :
          wireFormat' = fmt /\ wireKind' = knd
    /\ UNCHANGED <<wireSent, wireOctets, wireCut, wireGot>>
\* It writes the message.
Written(msg) == wireSent' = msg /\ wireOctets' = Enc(Formats[wireFormat].w, msg)
WriteMessage ==
    /\ wireFormat /= "" /\ wireSent = NothingSent
    /\ \E vrt \in 1..3 : Written(Sample(wireFormat, wireKind, vrt))
    /\ UNCHANGED <<wireFormat, wireKind, wireCut, wireGot>>
\* Only part of it arrives.  In a long message, not every place is tried.
CutPlaces(n) == {k \in 0..(n - 1) : k < 8 \/ k % 13 = 0 \/ k > n - 4}
CutShort ==
    /\ wireSent /= NothingSent /\ ~wireCut /\ wireGot = NothingRead
    /\ \E k \in CutPlaces(Len(wireOctets)) : wireOctets' = SubSeq(wireOctets, 1, k)
    /\ wireCut' = TRUE
    /\ UNCHANGED <<wireFormat, wireKind, wireSent, wireGot>>
\* The other end reads what there is.
ReadMessage ==
    /\ wireSent /= NothingSent /\ wireGot = NothingRead
    /\ wireGot' = Decode(Formats[wireFormat].r, wireOctets)
    /\ UNCHANGED <<wireFormat, wireKind, wireSent, wireOctets, wireCut>>
WireNext == PickFormat \/ WriteMessage \/ CutShort \/ ReadMessage

WireSpec == WireInit /\ [][WireNext]_wireVars

\* What is written is read back: every message, whatever optional parts it
\* has, is accepted by its reader and has every field it was given, at its
\* value (the encode and decode functions of proto/ and channels/).
ReadBack == ~wireCut /\ wireGot /= NothingRead => wireGot.ok /\ wireGot.m = wireSent
\* A message cut short is noticed: its reader fails, or takes it for a shorter
\* message in which no field has a value that was not sent; only fields that
\* run to the end of the octets may have lost some of theirs.
CutIsNoticed ==
    wireGot.ok => \A f \in DOMAIN wireGot.m :
        /\ f \in DOMAIN wireSent
        /\ wireGot.m[f] = wireSent[f] \/ (wireCut /\ f \in Formats[wireFormat].open)

\* The formats: a message reads back as it was written, and one cut short
\* is noticed.
WireCorrect ==
    /\ CutIsNoticed
    /\ ReadBack
==============================================================================
